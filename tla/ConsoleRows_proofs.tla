-------------------------- MODULE ConsoleRows_proofs ---------------------------
(***************************************************************************)
(* The console's long lists, for every number of events and log lines and  *)
(* every page size: no event of a timeline is skipped or listed twice, and *)
(* the hits of a log search are an unbroken run of its lines.              *)
(* The variables of a part are p1, p2, ... in the order in which its       *)
(* module lists them (ConsoleTab); the parts define the invariants.        *)
(***************************************************************************)
EXTENDS ConsoleRows, FiniteSetTheorems, TLAPS

(***************************************************************************)
(* The pages of the two lists                                              *)
(***************************************************************************)

\* A set of numbers has a least element.
LEMMA Least ==
  ASSUME NEW S \in SUBSET Nat, S # {}
  PROVE  \E m \in S : \A k \in S : m <= k
<1> DEFINE R == OpToRel(<, Nat)
<1>1. IsWellFoundedOn(R, Nat)
  BY NatLessThanWellFounded, Zenon
<1>2. \A x, y \in Nat : <<y, x>> \in R <=> y < x
  BY Zenon DEF OpToRel
<1> HIDE DEF R
<1>3. PICK x \in S : \A y \in S : ~(<<y, x>> \in R)
  BY <1>1, WFMin, Zenon
<1>4. ASSUME NEW y \in S PROVE x <= y
  <2>1. x \in Nat /\ y \in Nat
    BY Zenon
  <2>2. ~(y < x)
    BY <1>2, <1>3, <2>1, Zenon
  <2> QED
    BY <2>1, <2>2
<1> QED
  BY <1>4, Zenon

\* A set of numbers up to N is finite and has a greatest element.
LEMMA Greatest ==
  ASSUME NEW N \in Nat, NEW S \in SUBSET (1..N), S # {}
  PROVE  \E m \in S : \A k \in S : k <= m
<1> DEFINE R == {N - s : s \in S}
<1>1. R \in SUBSET Nat /\ R # {}
  <2>1. \A s \in S : N - s \in Nat
    OBVIOUS
  <2> QED BY <2>1, Zenon
<1>2. PICK r \in R : \A q \in R : r <= q
  BY <1>1, Least, Zenon
<1>3. PICK m \in S : r = N - m
  BY <1>2, Zenon
<1>4. ASSUME NEW k \in S PROVE k <= m
  <2>1. N - k \in R
    BY Zenon
  <2>2. N - m <= N - k
    BY <1>2, <1>3, <2>1, Zenon
  <2> QED BY <2>2
<1> QED BY <1>4, Zenon

\* The size of a set, and the newest of one, are the same for both lists.
LEMMA Sizes == \A S : Ti!Cardinality(S) = Cardinality(S) /\ Lo!Cardinality(S) = Cardinality(S)
BY Zenon DEF Ti!Cardinality, Lo!Cardinality, Cardinality

Latest(below) == {e \in below : Cardinality({f \in below : f > e}) < PageSize}

\* Both lists take their pages this way.
LEMMA Latests == \A B : Ti!Newest(B) = Latest(B) /\ Lo!Newest(B) = Latest(B)
<1>1. \A B : Ti!Newest(B) = Latest(B)
  BY Zenon DEF Ti!Newest, Latest, Ti!Cardinality, Cardinality
<1>2. \A B : Lo!Newest(B) = Latest(B)
  BY Zenon DEF Lo!Newest, Latest, Lo!Cardinality, Cardinality
<1> QED BY <1>1, <1>2, Zenon

\* A page of the newest elements of a set: what is left out is older than all of it, and only a full
\* page leaves anything out.
LEMMA NewestPage ==
  ASSUME NEW N \in Nat, NEW B \in SUBSET (1..N)
  PROVE  /\ Latest(B) \in SUBSET B /\ IsFiniteSet(Latest(B)) /\ Cardinality(Latest(B)) \in Nat
         /\ \A e \in B \ Latest(B), f \in Latest(B) : e < f
         /\ Cardinality(Latest(B)) <= PageSize
         /\ B \ Latest(B) # {} => Cardinality(Latest(B)) = PageSize
<1> DEFINE Above(e) == {f \in B : f > e}
           I == Latest(B)
<1>1. I \in SUBSET B /\ I = {e \in B : Cardinality(Above(e)) < PageSize} /\ B \in SUBSET Nat
  BY DEF Latest
<1>2. IsFiniteSet(B) /\ IsFiniteSet(I) /\ Cardinality(I) \in Nat
  <2>1. IsFiniteSet(1..N)
    BY FS_Interval
  <2>2. IsFiniteSet(B)
    BY <2>1, FS_Subset, Zenon
  <2>3. IsFiniteSet(I)
    BY <1>1, <2>2, FS_Subset, Zenon
  <2> QED BY <2>2, <2>3, FS_CardinalityType, Zenon
<1>3. \A e \in B : IsFiniteSet(Above(e)) /\ Cardinality(Above(e)) \in Nat
  <2> SUFFICES ASSUME NEW e \in B PROVE IsFiniteSet(Above(e)) /\ Cardinality(Above(e)) \in Nat
    BY Zenon
  <2>1. Above(e) \in SUBSET B
    BY Zenon
  <2> HIDE DEF Above
  <2>2. IsFiniteSet(Above(e))
    BY <1>2, <2>1, FS_Subset, Zenon
  <2> QED BY <2>2, FS_CardinalityType, Zenon
<1>4. ASSUME NEW e \in B \ I, NEW f \in I PROVE e < f
  <2> SUFFICES ASSUME ~ (e < f) PROVE FALSE
    BY Zenon
  <2>1. e \in Nat /\ f \in Nat /\ e \in B /\ f \in B
    BY <1>1, Zenon
  <2>2. Above(e) \in SUBSET Above(f)
    <3>1. \A g \in B : g > e => g > f
      <4> HIDE DEF I, Above
      <4> QED BY <1>1, <2>1
    <3> QED BY <3>1, Zenon
  <2>3. Cardinality(Above(e)) <= Cardinality(Above(f))
    <3>1. IsFiniteSet(Above(f))
      BY <1>3, <2>1, Zenon
    <3> HIDE DEF Above
    <3> QED BY <2>2, <3>1, FS_Subset, Zenon
  <2>4. Cardinality(Above(f)) < PageSize /\ ~ (Cardinality(Above(e)) < PageSize)
    BY <1>1, <2>1, Zenon
  <2> HIDE DEF Above, I
  <2> QED BY <1>3, <2>1, <2>3, <2>4, RowsAssumption
<1>5. Cardinality(I) <= PageSize
  <2>1. CASE I = {}
    BY <2>1, FS_EmptySet, RowsAssumption
  <2>2. CASE I # {}
    <3>1. PICK f \in I : \A g \in I : f <= g
      <4>1. I \in SUBSET Nat
        BY <1>1, Zenon
      <4> HIDE DEF I
      <4> QED BY <2>2, <4>1, Least, Zenon
    <3>2. f \in Nat /\ \A g \in I : g \in Nat
      BY <1>1, Zenon
    <3>3. I \ {f} \in SUBSET Above(f)
      <4>1. \A g \in I \ {f} : g > f
        <5> HIDE DEF I, Above
        <5> QED BY <3>1, <3>2
      <4> QED BY <1>1, <4>1, Zenon
    <3>4. Cardinality(I \ {f}) = Cardinality(I) - 1
      BY <1>2, <3>1, FS_RemoveElement, Zenon
    <3>5. Cardinality(I \ {f}) <= Cardinality(Above(f))
      <4>1. IsFiniteSet(Above(f))
        BY <1>1, <1>3, Zenon
      <4> HIDE DEF Above, I
      <4> QED BY <3>3, <4>1, FS_Subset, Zenon
    <3>6. Cardinality(Above(f)) < PageSize /\ Cardinality(Above(f)) \in Nat
      BY <1>1, <1>3, Zenon
    <3> HIDE DEF Above, I
    <3> QED BY <1>2, <3>4, <3>5, <3>6, RowsAssumption
  <2> QED BY <2>1, <2>2, Zenon
<1>6. ASSUME B \ I # {} PROVE Cardinality(I) = PageSize
  <2>1. PICK e \in B \ I : \A g \in B \ I : g <= e
    <3>1. B \ I \in SUBSET (1..N)
      BY Zenon
    <3> HIDE DEF I
    <3> QED BY <1>6, <3>1, Greatest, Zenon
  <2>2. e \in Nat /\ \A g \in B : g \in Nat
    BY <1>1, Zenon
  <2>3. Above(e) = I
    <3>1. ASSUME NEW g \in Above(e) PROVE g \in I
      BY <2>1, <2>2, <3>1
    <3>2. ASSUME NEW g \in I PROVE g \in Above(e)
      <4>1. e < g /\ g \in B
        BY <1>1, <1>4, <2>1, Zenon
      <4> QED BY <2>2, <4>1, Zenon
    <3> QED BY <3>1, <3>2, Zenon
  <2>4. ~ (Cardinality(I) < PageSize)
    BY <1>1, <2>1, <2>3, Zenon
  <2> HIDE DEF Above, I
  <2> QED BY <1>2, <1>5, <2>4, RowsAssumption
<1> HIDE DEF I
<1>7. /\ I \in SUBSET B /\ IsFiniteSet(I) /\ Cardinality(I) \in Nat
      /\ \A e \in B \ I, f \in I : e < f
      /\ Cardinality(I) <= PageSize
      /\ B \ I # {} => Cardinality(I) = PageSize
  BY <1>1, <1>2, <1>4, <1>5, <1>6, Zenon
<1> QED BY <1>7, Zenon DEF I

\* The oldest element of a set of numbers.
LEMMA Oldest ==
  ASSUME NEW S \in SUBSET Nat, S # {}
  PROVE  /\ Ti!Min(S) \in S /\ \A k \in S : Ti!Min(S) <= k
         /\ Lo!Min(S) \in S /\ \A k \in S : Lo!Min(S) <= k
<1>1. \E m \in S : \A k \in S : m <= k
  BY Least, Zenon
<1>2. Ti!Min(S) \in S /\ \A k \in S : Ti!Min(S) <= k
  BY <1>1, Zenon DEF Ti!Min
<1>3. Lo!Min(S) \in S /\ \A k \in S : Lo!Min(S) <= k
  BY <1>1, Zenon DEF Lo!Min
<1> QED BY <1>2, <1>3, Zenon

(***************************************************************************)
(* Timeline: p1 events, p2 pages, p3 base, p4 job, p5 got                  *)
(***************************************************************************)

\* What the answer with the next page holds.
LEMMA PageFacts ==
  ASSUME p1 \subseteq 1..MaxTime, NEW c \in Nat
  PROVE  LET p == Ti!Page(c) B == {e \in p1 : e < c}
         IN  /\ p \in [items : SUBSET (1..MaxTime), next : 0..MaxTime]
             /\ p.items \subseteq B
             /\ p.next # 0 => p.next \in p.items /\ \A f \in p.items : p.next <= f
             /\ \A e \in B : e \notin p.items => e < p.next
<1> DEFINE B == {e \in p1 : e < c}
           I == Latest(B)
           p == Ti!Page(c)
<1>1. B \in SUBSET (1..MaxTime)
  BY Zenon
<1>2. p = [items |-> I, next |-> IF Cardinality(I) = PageSize THEN Ti!Min(I) ELSE 0]
  BY Sizes, Latests, Zenon DEF Ti!Page
<1>3. /\ I \in SUBSET B /\ Cardinality(I) \in Nat
      /\ \A e \in B \ I, f \in I : e < f
      /\ B \ I # {} => Cardinality(I) = PageSize
  <2> HIDE DEF B
  <2> QED BY <1>1, NewestPage, RowsAssumption, Zenon
<1> HIDE DEF B, I, p
<1>4. I \in SUBSET (1..MaxTime) /\ I \in SUBSET Nat
  BY <1>1, <1>3
<1>5. CASE Cardinality(I) = PageSize
  <2>1. I # {}
    BY <1>5, FS_EmptySet, RowsAssumption, Zenon
  <2>2. Ti!Min(I) \in I /\ \A f \in I : Ti!Min(I) <= f
    BY <1>4, <2>1, Oldest, Zenon
  <2>3. p = [items |-> I, next |-> Ti!Min(I)]
    BY <1>2, <1>5, Zenon
  <2>4. Ti!Min(I) \in 0..MaxTime
    <3>1. Ti!Min(I) \in 1..MaxTime
      BY <1>4, <2>2, Zenon
    <3> QED BY <3>1
  <2>5. \A e \in B : e \notin I => e < Ti!Min(I)
    BY <1>3, <2>2, Zenon
  <2>6. /\ p \in [items : SUBSET (1..MaxTime), next : 0..MaxTime]
        /\ p.items = I /\ p.next = Ti!Min(I)
    BY <1>4, <2>3, <2>4, Zenon
  <2> QED BY <1>3, <2>2, <2>5, <2>6, Zenon DEF B, p
<1>6. CASE Cardinality(I) # PageSize
  <2>1. p = [items |-> I, next |-> 0]
    BY <1>2, <1>6, Zenon
  <2>2. 0 \in 0..MaxTime
    BY RowsAssumption
  <2>3. /\ p \in [items : SUBSET (1..MaxTime), next : 0..MaxTime]
        /\ p.items = I /\ p.next = 0
    BY <1>4, <2>1, <2>2, Zenon
  <2>4. B \ I = {}
    BY <1>3, <1>6, Zenon
  <2> QED BY <1>3, <2>3, <2>4, Zenon DEF B, p
<1> QED BY <1>5, <1>6, Zenon

\* The pages of a run.
LEMMA PagesOf ==
  ASSUME NEW S, NEW ps \in Seq(S)
  PROVE  (\A i \in DOMAIN ps : ps[i] \in S) /\ (ps # <<>> => Ti!Last(ps) \in S)
<1>1. \A i \in DOMAIN ps : ps[i] \in S
  OBVIOUS
<1>2. ps # <<>> => Len(ps) \in DOMAIN ps
  OBVIOUS
<1> QED BY <1>1, <1>2, Zenon DEF Ti!Last

\* What a page more does to a run of pages.
LEMMA AppendPage ==
  ASSUME NEW S, NEW ps \in Seq(S), NEW p \in S
  PROVE  LET qs == Append(ps, p)
         IN  /\ qs \in Seq(S) /\ qs # <<>> /\ Ti!Last(qs) = p
             /\ Len(ps) \in Nat /\ DOMAIN ps = 1..Len(ps)
             /\ DOMAIN qs = 1..(Len(ps) + 1)
             /\ \A i \in DOMAIN ps : qs[i] = ps[i]
             /\ qs[Len(ps) + 1] = p
             /\ Ti!Rows(qs) = Ti!Rows(ps) \cup p.items
<1> DEFINE qs == Append(ps, p)
<1>1. /\ qs \in Seq(S) /\ Len(qs) = Len(ps) + 1 /\ Len(ps) \in Nat /\ DOMAIN ps = 1..Len(ps)
      /\ DOMAIN qs = 1..(Len(ps) + 1)
      /\ \A i \in DOMAIN ps : qs[i] = ps[i]
      /\ qs[Len(ps) + 1] = p
  OBVIOUS
<1>2. qs # <<>>
  BY <1>1
<1> HIDE DEF qs
<1>3. Ti!Last(qs) = p
  BY <1>1, Zenon DEF Ti!Last
<1>4. Ti!Rows(qs) = Ti!Rows(ps) \cup p.items
  <2>1. ASSUME NEW e \in Ti!Rows(qs) PROVE e \in Ti!Rows(ps) \cup p.items
    <3>1. PICK i \in DOMAIN qs : e \in qs[i].items
      BY Zenon DEF Ti!Rows
    <3>2. i \in DOMAIN ps \/ i = Len(ps) + 1
      BY <1>1
    <3> QED BY <1>1, <3>1, <3>2, Zenon DEF Ti!Rows
  <2>2. ASSUME NEW e \in Ti!Rows(ps) \cup p.items PROVE e \in Ti!Rows(qs)
    <3>1. CASE e \in p.items
      <4>1. Len(ps) + 1 \in DOMAIN qs
        BY <1>1
      <4> QED BY <1>1, <3>1, <4>1, Zenon DEF Ti!Rows
    <3>2. CASE e \in Ti!Rows(ps)
      <4>1. PICK i \in DOMAIN ps : e \in ps[i].items
        BY <3>2, Zenon DEF Ti!Rows
      <4>2. i \in DOMAIN qs
        BY <1>1
      <4> QED BY <1>1, <4>1, <4>2, Zenon DEF Ti!Rows
    <3> QED BY <2>2, <3>1, <3>2, Zenon
  <2> QED BY <2>1, <2>2, Zenon
<1> QED BY <1>1, <1>2, <1>3, <1>4, Zenon DEF qs

\* A run stays unbroken when the page behind its cursor, or its first page, is added.
LEMMA FollowingUnbroken ==
  ASSUME p1 \subseteq 1..MaxTime, NEW ps, NEW b, NEW b2,
         Ti!Unbroken(ps, b), b2 \subseteq p1,
         IF ps = <<>> THEN TRUE ELSE Ti!Last(ps).next # 0 /\ b2 = b
  PROVE  Ti!Unbroken(Append(ps, Ti!Following(ps)), b2)
<1> DEFINE S == [items : SUBSET (1..MaxTime), next : 0..MaxTime]
           c == IF ps = <<>> THEN Ti!Top ELSE Ti!Last(ps).next
           p == Ti!Page(c)
           qs == Append(ps, p)
<1>1. Ti!Following(ps) = p
  BY Zenon DEF Ti!Following
<1>2. /\ ps \in Seq(S)
      /\ \A i, j \in DOMAIN ps : i < j => \A e \in ps[i].items, f \in ps[j].items : e > f
  BY Zenon DEF Ti!Unbroken
<1>3. ps # <<>> => Ti!Last(ps) \in S
  BY <1>2, PagesOf, Zenon
<1>4. c \in Nat
  <2>1. ps # <<>> => Ti!Last(ps).next \in Nat
    BY <1>3
  <2> QED BY <2>1, RowsAssumption DEF Ti!Top
<1>5. \A e \in Ti!Rows(ps) : c <= e /\ e \in 1..MaxTime
  <2>1. CASE ps = <<>>
    <3>1. DOMAIN ps = {}
      BY <2>1
    <3> QED BY <3>1, Zenon DEF Ti!Rows
  <2>2. CASE ps # <<>>
    <3>1. \A e \in Ti!Rows(ps) : c <= e
      BY <2>2, Zenon DEF Ti!Unbroken
    <3>2. \A i \in DOMAIN ps : ps[i].items \subseteq 1..MaxTime
      <4>1. \A i \in DOMAIN ps : ps[i] \in S
        BY <1>2, PagesOf, Zenon
      <4>2. \A q \in S : q.items \subseteq 1..MaxTime
        BY Zenon
      <4> QED BY <4>1, <4>2, Zenon
    <3> QED BY <3>1, <3>2, Zenon DEF Ti!Rows
  <2> QED BY <2>1, <2>2, Zenon
<1>6. \A e \in b2 : e \notin Ti!Rows(ps) => e < c
  <2>1. CASE ps = <<>>
    BY <2>1, RowsAssumption DEF Ti!Top
  <2>2. CASE ps # <<>>
    BY <2>2, Zenon DEF Ti!Unbroken
  <2> QED BY <2>1, <2>2, Zenon
<1> HIDE DEF c
<1>7. /\ p \in S /\ p.items \subseteq {e \in p1 : e < c}
      /\ p.next # 0 => p.next \in p.items /\ \A f \in p.items : p.next <= f
      /\ \A e \in {f \in p1 : f < c} : e \notin p.items => e < p.next
  BY <1>4, PageFacts, Zenon
<1> HIDE DEF p
<1>8. /\ qs \in Seq(S) /\ qs # <<>> /\ Ti!Last(qs) = p
      /\ Len(ps) \in Nat /\ DOMAIN ps = 1..Len(ps)
      /\ DOMAIN qs = 1..(Len(ps) + 1)
      /\ \A i \in DOMAIN ps : qs[i] = ps[i]
      /\ qs[Len(ps) + 1] = p
      /\ Ti!Rows(qs) = Ti!Rows(ps) \cup p.items
  <2>1. ps \in Seq(S) /\ p \in S
    BY <1>2, <1>7, Zenon
  <2> HIDE DEF S
  <2> QED BY <2>1, AppendPage
<1> HIDE DEF qs
<1>9. ASSUME NEW i \in DOMAIN qs, NEW j \in DOMAIN qs, i < j,
             NEW e \in qs[i].items, NEW f \in qs[j].items
      PROVE  e > f
  <2>1. i \in DOMAIN ps /\ (j \in DOMAIN ps \/ j = Len(ps) + 1)
    BY <1>8, <1>9
  <2>2. CASE j \in DOMAIN ps
    BY <1>2, <1>8, <1>9, <2>1, <2>2, Zenon
  <2>3. CASE j = Len(ps) + 1
    <3>1. e \in Ti!Rows(ps) /\ f \in p.items
      BY <1>8, <2>1, <2>3, Zenon DEF Ti!Rows
    <3>2. c <= e /\ e \in 1..MaxTime /\ f < c /\ f \in 1..MaxTime
      BY <1>5, <1>7, <3>1, Zenon
    <3> QED BY <1>4, <3>2
  <2> QED BY <2>1, <2>2, <2>3, Zenon
<1>10. ASSUME p.next # 0, NEW f \in Ti!Rows(qs) PROVE p.next <= f
  <2>1. CASE f \in p.items
    BY <1>7, <1>10, <2>1, Zenon
  <2>2. CASE f \in Ti!Rows(ps)
    <3>1. c <= f /\ f \in 1..MaxTime
      BY <1>5, <2>2, Zenon
    <3>2. p.next < c /\ p.next \in 1..MaxTime
      BY <1>7, <1>10, Zenon
    <3> QED BY <1>4, <3>1, <3>2
  <2> QED BY <1>8, <1>10, <2>1, <2>2, Zenon
<1>11. ASSUME NEW e \in b2, e \notin Ti!Rows(qs) PROVE e < p.next
  BY <1>6, <1>7, <1>8, <1>11, Zenon
<1>12. Ti!Unbroken(qs, b2)
  BY <1>8, <1>9, <1>10, <1>11, Zenon DEF Ti!Unbroken
<1> QED BY <1>1, <1>12, Zenon DEF qs

\* No page at all is an unbroken run of nothing.
LEMMA NothingUnbroken == Ti!Unbroken(<<>>, {})
<1>1. DOMAIN <<>> = {} /\ <<>> \in Seq([items : SUBSET (1..MaxTime), next : 0..MaxTime])
  OBVIOUS
<1> QED BY <1>1, Zenon DEF Ti!Unbroken

\* A run stays unbroken while events come in.
LEMMA UnbrokenStays ==
  ASSUME NEW ps, NEW b, Ti!Unbroken(ps, b), p1 \subseteq p1'
  PROVE  Ti!Unbroken(ps, b)'
BY Zenon DEF Ti!Unbroken, Ti!Rows, Ti!Last

\* Every step of a timeline keeps its pages unbroken.
LEMMA TimelineNext == Ti!PagesInv /\ [Ti!Next]_(Ti!vars) => Ti!PagesInv'
<1> SUFFICES ASSUME Ti!PagesInv, [Ti!Next]_(Ti!vars) PROVE Ti!PagesInv'
  BY Zenon
<1>1. /\ p1 \subseteq 1..MaxTime
      /\ Ti!Unbroken(p2, p3) /\ Ti!Unbroken(p5.pages, p5.base)
      /\ p4 = "next" => Ti!hasNextPage
      /\ p5.pages # <<>> => Ti!Last(p5.pages).next # 0
  BY Zenon DEF Ti!PagesInv
<1>2. Ti!Nothing.pages = <<>> /\ Ti!Nothing.base = {} /\ Ti!Unbroken(Ti!Nothing.pages, Ti!Nothing.base)
  <2>1. Ti!Nothing.pages = <<>> /\ Ti!Nothing.base = {}
    BY Zenon DEF Ti!Nothing
  <2> QED BY <2>1, NothingUnbroken, Zenon
<1>3. ASSUME p1 \subseteq p1', p1' \subseteq 1..MaxTime,
             p2' = p2, p3' = p3,
             p5' = p5 \/ p5' = Ti!Nothing,
             p4' = "next" => Ti!hasNextPage
      PROVE  Ti!PagesInv'
  <2>1. ASSUME NEW qs, NEW b, Ti!Unbroken(qs, b) PROVE Ti!Unbroken(qs, b)'
    BY <1>3, <2>1, UnbrokenStays, Zenon
  <2>2. Ti!Unbroken(p2, p3)' /\ Ti!Unbroken(p5.pages, p5.base)'
    BY <1>1, <1>2, <1>3, <2>1, Zenon
  <2>3. Ti!hasNextPage' = Ti!hasNextPage /\ (p5'.pages # <<>> => Ti!Last(p5.pages)'.next # 0)
    BY <1>1, <1>2, <1>3, Zenon DEF Ti!hasNextPage, Ti!Last
  <2> QED BY <1>3, <2>2, <2>3, Zenon DEF Ti!PagesInv
<1>4. ASSUME NEW e \in 1..MaxTime, Ti!Ingest(e) PROVE Ti!PagesInv'
  BY <1>1, <1>3, <1>4, Zenon DEF Ti!Ingest
<1>5. CASE Ti!FetchNext \/ Ti!FetchFailed \/ Ti!Focus \/ UNCHANGED Ti!vars
  BY <1>1, <1>3, <1>5, Zenon DEF Ti!FetchNext, Ti!FetchFailed, Ti!Focus, Ti!vars
<1>6. ASSUME UNCHANGED p1, NEW qs, NEW b, Ti!Unbroken(qs, b) PROVE Ti!Unbroken(qs, b)'
  BY <1>6, UnbrokenStays, Zenon
<1>7. CASE Ti!PageAnswered
  <2> DEFINE qs == Append(p5.pages, Ti!Following(p5.pages))
             b == IF p5.pages = <<>> THEN p1 ELSE p5.base
  <2>1. Ti!Unbroken(qs, b)
    <3>1. b \subseteq p1
      BY <1>1, Zenon DEF Ti!Unbroken
    <3>2. IF p5.pages = <<>> THEN TRUE ELSE Ti!Last(p5.pages).next # 0 /\ b = p5.base
      BY <1>1, Zenon
    <3> HIDE DEF b
    <3> QED BY <1>1, <3>1, <3>2, FollowingUnbroken, Zenon
  <2>2. UNCHANGED p1
    BY <1>7, Zenon DEF Ti!PageAnswered
  <2> DEFINE ans == [pages |-> qs, base |-> b]
  <2>3. ans.pages = qs /\ ans.base = b
    BY Zenon
  <2> HIDE DEF qs, b
  <2>4. \/ p2' = ans.pages /\ p3' = ans.base /\ p4' = "none" /\ p5' = Ti!Nothing
        \/ p5' = ans /\ UNCHANGED <<p2, p3, p4>> /\ Ti!Last(ans.pages).next # 0
    BY <1>7, Zenon DEF Ti!PageAnswered, qs, b
  <2> HIDE DEF ans
  <2>5. CASE p2' = ans.pages /\ p3' = ans.base /\ p4' = "none" /\ p5' = Ti!Nothing
    BY <1>1, <1>2, <1>6, <2>1, <2>2, <2>3, <2>5, Zenon DEF Ti!PagesInv
  <2>6. CASE p5' = ans /\ UNCHANGED <<p2, p3, p4>> /\ Ti!Last(ans.pages).next # 0
    BY <1>1, <1>6, <2>1, <2>2, <2>3, <2>6, Zenon DEF Ti!PagesInv, Ti!hasNextPage, Ti!Last
  <2> QED BY <2>4, <2>5, <2>6, Zenon
<1>8. CASE Ti!NextAnswered
  <2> DEFINE qs == Append(p2, Ti!Following(p2))
  <2>1. Ti!Unbroken(qs, p3)
    <3>1. p3 \subseteq p1 /\ (IF p2 = <<>> THEN TRUE ELSE Ti!Last(p2).next # 0 /\ p3 = p3)
      BY <1>1, <1>8, Zenon DEF Ti!Unbroken, Ti!NextAnswered, Ti!hasNextPage
    <3> QED BY <1>1, <3>1, FollowingUnbroken, Zenon
  <2>2. p2' = qs /\ p4' = "none" /\ UNCHANGED <<p1, p3, p5>>
    BY <1>8, Zenon DEF Ti!NextAnswered
  <2> HIDE DEF qs
  <2>3. Ti!Unbroken(p2, p3)' /\ Ti!Unbroken(p5.pages, p5.base)'
    BY <1>1, <1>6, <2>1, <2>2, Zenon
  <2> QED BY <1>1, <2>2, <2>3, Zenon DEF Ti!PagesInv, Ti!Last
<1> QED BY <1>4, <1>5, <1>7, <1>8, Zenon DEF Ti!Next

\* The tab opens with no page.
LEMMA TimelineInit == Ti!Init => Ti!PagesInv
<1> SUFFICES ASSUME Ti!Init PROVE Ti!PagesInv
  BY Zenon
<1>1. p5.pages = <<>> /\ p5.base = {} /\ p2 = <<>> /\ p3 = {} /\ p1 \subseteq 1..MaxTime /\ p4 = "all"
  BY Zenon DEF Ti!Init, Ti!Nothing
<1> QED BY <1>1, NothingUnbroken, Zenon DEF Ti!PagesInv

\* What the invariant says of the list on screen.
LEMMA TimelineSafe == Ti!PagesInv => Ti!NoEventSkipped
<1> SUFFICES ASSUME Ti!PagesInv, NEW e \in p3, e \notin Ti!Rows(p2)
             PROVE  Ti!hasNextPage /\ \A f \in Ti!Rows(p2) : e < f
  BY Zenon DEF Ti!PagesInv, Ti!Unbroken, Ti!NoEventSkipped
<1>1. p2 # <<>> /\ e < Ti!Last(p2).next /\ e \in 1..MaxTime
  BY Zenon DEF Ti!PagesInv, Ti!Unbroken
<1>2. Ti!Last(p2) \in [items : SUBSET (1..MaxTime), next : 0..MaxTime]
  BY <1>1, PagesOf, Zenon DEF Ti!PagesInv, Ti!Unbroken
<1>3. Ti!Last(p2).next \in Nat /\ Ti!Last(p2).next # 0
  BY <1>1, <1>2
<1>4. ASSUME NEW f \in Ti!Rows(p2) PROVE e < f
  <2>1. \A i \in DOMAIN p2 : p2[i] \in [items : SUBSET (1..MaxTime), next : 0..MaxTime]
    BY PagesOf, Zenon DEF Ti!PagesInv, Ti!Unbroken
  <2>2. f \in 1..MaxTime
    BY <2>1, Zenon DEF Ti!Rows
  <2>3. Ti!Last(p2).next <= f
    BY <1>1, <1>3, Zenon DEF Ti!PagesInv, Ti!Unbroken
  <2> QED BY <1>1, <1>3, <2>2, <2>3
<1> QED BY <1>1, <1>3, <1>4, Zenon DEF Ti!hasNextPage

(***************************************************************************)
(* LogSearch: p1 lines, p2 form, p3 tenant, p4 hits, p5 cursor, p6 total,  *)
(* p7 flight, p8 asked, p9 mixed, p10 changes                              *)
(***************************************************************************)

\* What the listing of a set, and the one the store gives, are.
LEMMA ListingIs ==
  \A s, S : Lo!Listing(s, S) <=>
                 /\ s \in Seq(Nat) /\ Len(s) = Cardinality(S)
                 /\ \A i \in DOMAIN s : s[i] \in S
                 /\ \A n \in S : \E i \in DOMAIN s : s[i] = n
                 /\ \A i, j \in DOMAIN s : i < j => s[i] > s[j]
BY Sizes, Zenon DEF Lo!Listing

\* How the store orders a page.
LEMMA DescendingIs ==
  \A S : Lo!Descending(S) =
             CHOOSE s \in [1..Cardinality(S) -> S] : \A i, j \in DOMAIN s : i < j => s[i] > s[j]
BY Zenon DEF Lo!Descending, Lo!Cardinality, Cardinality

\* A set of lines has a descending listing: the set that has none and is smallest would have one.
LEMMA Listable ==
  ASSUME NEW N \in Nat, NEW S \in SUBSET (1..N)
  PROVE  \E s \in [1..Cardinality(S) -> S] : \A i, j \in DOMAIN s : i < j => s[i] > s[j]
<1> DEFINE Has(T) == \E s \in [1..Cardinality(T) -> T] : \A i, j \in DOMAIN s : i < j => s[i] > s[j]
           K == {k \in Nat : \E T \in SUBSET (1..N) : Cardinality(T) = k /\ ~ Has(T)}
<1>1. \A T \in SUBSET (1..N) : IsFiniteSet(T) /\ Cardinality(T) \in Nat
  <2>1. IsFiniteSet(1..N)
    BY FS_Interval
  <2>2. \A T \in SUBSET (1..N) : IsFiniteSet(T)
    BY <2>1, FS_Subset, Zenon
  <2> QED BY <2>2, FS_CardinalityType, Zenon
<1> SUFFICES ASSUME ~ Has(S) PROVE FALSE
  BY Zenon
<1>2. Cardinality(S) \in K /\ K \in SUBSET Nat
  BY <1>1, Zenon
<1>3. PICK k \in K : \A l \in K : k <= l
  <2> HIDE DEF K
  <2> QED BY <1>2, Least, Zenon
<1>4. k \in Nat /\ \E T \in SUBSET (1..N) : Cardinality(T) = k /\ ~ Has(T)
  BY <1>3, Zenon
<1>5. PICK T \in SUBSET (1..N) : Cardinality(T) = k /\ ~ Has(T)
  BY <1>4, Zenon
<1>6. T # {}
  <2> SUFFICES ASSUME T = {} PROVE Has(T)
    BY <1>5, Zenon
  <2>1. Cardinality(T) = 0
    BY FS_EmptySet, Zenon
  <2>2. <<>> \in [1..0 -> T] /\ DOMAIN <<>> = {}
    OBVIOUS
  <2> QED BY <2>1, <2>2, Zenon
<1>7. T \in SUBSET Nat
  OBVIOUS
<1>8. PICK m \in T : \A n \in T : m <= n
  BY <1>6, <1>7, Least, Zenon
<1> DEFINE U == T \ {m}
<1>9. U \in SUBSET (1..N) /\ Cardinality(U) = k - 1 /\ k - 1 \in Nat
  <2>1. U \in SUBSET (1..N)
    BY Zenon
  <2>2. Cardinality(U) = Cardinality(T) - 1
    BY <1>1, <1>5, <1>8, FS_RemoveElement, Zenon
  <2>3. Cardinality(U) \in Nat
    BY <1>1, <2>1, Zenon
  <2> HIDE DEF U
  <2> QED BY <1>4, <1>5, <2>1, <2>2, <2>3, Zenon
<1>10. Has(U)
  <2>1. k - 1 \notin K
    <3>1. ~ (k <= k - 1)
      BY <1>4
    <3> HIDE DEF K
    <3> QED BY <1>3, <3>1, Zenon
  <2> HIDE DEF Has, U
  <2> QED BY <1>9, <2>1, Zenon
<1>11. PICK s \in [1..(k - 1) -> U] : \A i, j \in DOMAIN s : i < j => s[i] > s[j]
  BY <1>9, <1>10, Zenon
<1> DEFINE t == [i \in 1..k |-> IF i < k THEN s[i] ELSE m]
<1>12. \A i \in 1..k : i < k => i \in 1..(k - 1) /\ s[i] \in T /\ s[i] > m
  <2> SUFFICES ASSUME NEW i \in 1..k, i < k PROVE i \in 1..(k - 1) /\ s[i] \in T /\ s[i] > m
    BY Zenon
  <2>1. i \in 1..(k - 1)
    BY <1>4
  <2>2. s[i] \in T /\ s[i] # m
    BY <1>11, <2>1, Zenon
  <2>3. m <= s[i] /\ m \in Nat /\ s[i] \in Nat
    BY <1>7, <1>8, <2>2, Zenon
  <2> QED BY <2>1, <2>2, <2>3
<1>13. t \in [1..k -> T]
  BY <1>12, Zenon
<1>14. ASSUME NEW i \in 1..k, NEW j \in 1..k, i < j PROVE t[i] > t[j]
  <2>1. i < k
    BY <1>4, <1>14
  <2>2. t[i] = s[i]
    BY <2>1, Zenon
  <2>3. CASE j < k
    <3>1. t[j] = s[j]
      BY <2>3, Zenon
    <3>2. i \in DOMAIN s /\ j \in DOMAIN s
      BY <1>11, <1>12, <2>1, <2>3, Zenon
    <3> QED BY <1>11, <1>14, <2>2, <3>1, <3>2, Zenon
  <2>4. CASE ~ (j < k)
    <3>1. t[j] = m
      BY <2>4, Zenon
    <3> QED BY <1>12, <2>1, <2>2, <3>1, Zenon
  <2> QED BY <2>3, <2>4, Zenon
<1>15. Has(T)
  <2>1. t \in [1..Cardinality(T) -> T] /\ DOMAIN t = 1..k
    BY <1>5, <1>13, Zenon
  <2> HIDE DEF t
  <2> QED BY <1>14, <2>1, Zenon
<1> QED BY <1>5, <1>15, Zenon

\* Descending lists the whole set, each line once.
LEMMA DescendingLists ==
  ASSUME NEW N \in Nat, NEW S \in SUBSET (1..N)
  PROVE  Lo!Listing(Lo!Descending(S), S)
<1> DEFINE s == Lo!Descending(S)
           k == Cardinality(S)
<1>1. s \in [1..k -> S] /\ \A i, j \in DOMAIN s : i < j => s[i] > s[j]
  BY Listable, DescendingIs, Zenon
<1>2. IsFiniteSet(S) /\ k \in Nat
  <2>1. IsFiniteSet(1..N)
    BY FS_Interval
  <2>2. IsFiniteSet(S)
    BY <2>1, FS_Subset, Zenon
  <2> QED BY <2>2, FS_CardinalityType, Zenon
<1> HIDE DEF s
<1>3. S \in SUBSET Nat
  OBVIOUS
<1>4. s \in Injection(1..k, S)
  <2>1. ASSUME NEW i \in 1..k, NEW j \in 1..k, s[i] = s[j] PROVE i = j
    <3>1. s[i] \in Nat /\ s[j] \in Nat /\ i \in DOMAIN s /\ j \in DOMAIN s
      BY <1>1, <1>3, Zenon
    <3>2. ~ (i < j) /\ ~ (j < i)
      <4>1. ~ (s[i] > s[j]) /\ ~ (s[j] > s[i])
        BY <2>1, <3>1
      <4> QED BY <1>1, <3>1, <4>1, Zenon
    <3> HIDE DEF k
    <3> QED BY <1>2, <3>2
  <2> QED BY <1>1, <2>1, Zenon DEF Injection, IsInjective
<1>5. s \in Surjection(1..k, S)
  <2>1. Cardinality(1..k) = k
    <3> HIDE DEF k
    <3> QED BY <1>2, FS_Interval
  <2> QED BY <1>2, <1>4, <2>1, FS_Injection, Zenon
<1>6. \A n \in S : \E i \in DOMAIN s : s[i] = n
  BY <1>1, <1>5, Zenon DEF Surjection
<1>7. s \in Seq(Nat) /\ Len(s) = k
  <2> HIDE DEF k
  <2>1. s \in [1..k -> Nat]
    BY <1>1, <1>3, Zenon
  <2> QED BY <1>2, <2>1
<1> QED BY <1>1, <1>6, <1>7, ListingIs, Zenon DEF s

\* A listing followed by one of older lines.
LEMMA ListingOn ==
  ASSUME NEW N \in Nat, NEW S \in SUBSET (1..N), NEW T \in SUBSET (1..N), NEW s, NEW t,
         Lo!Listing(s, S), Lo!Listing(t, T), \A m \in S, n \in T : m > n
  PROVE  Lo!Listing(s \o t, S \cup T)
<1> DEFINE u == s \o t
<1>1. /\ s \in Seq(Nat) /\ t \in Seq(Nat) /\ Len(s) = Cardinality(S) /\ Len(t) = Cardinality(T)
      /\ \A i \in DOMAIN s : s[i] \in S
      /\ \A i \in DOMAIN t : t[i] \in T
      /\ \A i, j \in DOMAIN s : i < j => s[i] > s[j]
      /\ \A i, j \in DOMAIN t : i < j => t[i] > t[j]
      /\ \A n \in S : \E i \in DOMAIN s : s[i] = n
      /\ \A n \in T : \E i \in DOMAIN t : t[i] = n
  BY ListingIs, Zenon
<1>2. /\ u \in Seq(Nat) /\ Len(u) = Len(s) + Len(t) /\ Len(s) \in Nat /\ Len(t) \in Nat
      /\ DOMAIN u = 1..(Len(s) + Len(t)) /\ DOMAIN s = 1..Len(s) /\ DOMAIN t = 1..Len(t)
      /\ \A i \in 1..(Len(s) + Len(t)) : u[i] = IF i <= Len(s) THEN s[i] ELSE t[i - Len(s)]
  <2>1. s \in Seq(Nat) /\ t \in Seq(Nat)
    BY <1>1, Zenon
  <2>2. /\ u \in Seq(Nat) /\ Len(u) = Len(s) + Len(t) /\ Len(s) \in Nat /\ Len(t) \in Nat
        /\ DOMAIN s = 1..Len(s) /\ DOMAIN t = 1..Len(t)
    BY <2>1
  <2>3. DOMAIN u = 1..Len(u)
    BY <2>2
  <2>4. \A i \in 1..(Len(s) + Len(t)) : u[i] = IF i <= Len(s) THEN s[i] ELSE t[i - Len(s)]
    BY <2>1
  <2> QED BY <2>2, <2>3, <2>4, Zenon
<1> HIDE DEF u
<1>3. \A i \in DOMAIN u : \/ i \in DOMAIN s /\ u[i] = s[i]
                          \/ i > Len(s) /\ i - Len(s) \in DOMAIN t /\ u[i] = t[i - Len(s)]
  BY <1>2
<1>4. \A i \in DOMAIN u : u[i] \in S \cup T
  BY <1>1, <1>3, Zenon
<1>5. ASSUME NEW i \in DOMAIN u, NEW j \in DOMAIN u, i < j PROVE u[i] > u[j]
  <2>1. CASE i \in DOMAIN s /\ u[i] = s[i] /\ j \in DOMAIN s /\ u[j] = s[j]
    BY <1>1, <1>5, <2>1, Zenon
  <2>2. CASE i \in DOMAIN s /\ u[i] = s[i] /\ j - Len(s) \in DOMAIN t /\ u[j] = t[j - Len(s)]
    BY <1>1, <2>2, Zenon
  <2>3. CASE i > Len(s) /\ j \in DOMAIN s
    BY <1>2, <1>5, <2>3
  <2>4. CASE /\ i > Len(s) /\ i - Len(s) \in DOMAIN t /\ u[i] = t[i - Len(s)]
             /\ j > Len(s) /\ j - Len(s) \in DOMAIN t /\ u[j] = t[j - Len(s)]
    <3>1. i - Len(s) < j - Len(s)
      BY <1>2, <1>5, <2>4
    <3> QED BY <1>1, <2>4, <3>1, Zenon
  <2> QED BY <1>3, <2>1, <2>2, <2>3, <2>4, Zenon
<1>6. ASSUME NEW n \in S \cup T PROVE \E i \in DOMAIN u : u[i] = n
  <2>1. CASE n \in S
    <3>1. PICK i \in DOMAIN s : s[i] = n
      BY <1>1, <2>1, Zenon
    <3>2. i \in DOMAIN u /\ u[i] = s[i]
      BY <1>2
    <3> QED BY <3>1, <3>2, Zenon
  <2>2. CASE n \in T
    <3>1. PICK i \in DOMAIN t : t[i] = n
      BY <1>1, <2>2, Zenon
    <3>2. i + Len(s) \in DOMAIN u /\ u[i + Len(s)] = t[i]
      <4>1. i \in Nat /\ i + Len(s) \in 1..(Len(s) + Len(t)) /\ ~ (i + Len(s) <= Len(s)) /\ (i + Len(s)) - Len(s) = i
        BY <1>2
      <4> QED BY <1>2, <4>1, Zenon
    <3> QED BY <3>1, <3>2, Zenon
  <2> QED BY <1>6, <2>1, <2>2, Zenon
<1>7. Len(u) = Cardinality(S \cup T)
  <2>1. IsFiniteSet(1..N)
    BY FS_Interval
  <2>2. IsFiniteSet(S) /\ IsFiniteSet(T)
    BY <2>1, FS_Subset, Zenon
  <2>3. S \cap T = {}
    <3>1. \A n \in 1..N : ~ (n > n)
      OBVIOUS
    <3> QED BY <3>1, Zenon
  <2>4. Cardinality(S \cup T) = Cardinality(S) + Cardinality(T) - Cardinality(S \cap T)
    BY <2>2, FS_Union, Zenon
  <2>5. Cardinality(S \cap T) = 0
    BY <2>3, FS_EmptySet, Zenon
  <2> QED BY <1>1, <1>2, <2>4, <2>5
<1> QED BY <1>2, <1>4, <1>5, <1>6, <1>7, ListingIs, Zenon DEF u

\* An answer continues a search from one position down to the one it gives.
Continues(res, q, pit, after, next) ==
    /\ next <= after
    /\ Lo!Listing(res.hits, {n \in Lo!From(q, pit, next) : n < after})
    /\ IF res.cursor = {} THEN next = 1 ELSE res.cursor = {[pit |-> pit, after |-> next]}

\* What one page of a search holds.
LEMMA FoundFacts ==
  ASSUME NEW q, NEW pit \in 0..MaxLines, NEW after \in 1..(MaxLines + 1)
  PROVE  /\ Lo!Found(q, pit, after).total = Cardinality(Lo!From(q, pit, 1))
         /\ \E next \in 1..MaxLines : Continues(Lo!Found(q, pit, after), q, pit, after, next)
<1> DEFINE B == {n \in 1..pit : n < after /\ Lo!Matches(q, n)}
           I == Latest(B)
           res == Lo!Found(q, pit, after)
<1>1. /\ res.hits = Lo!Descending(I)
      /\ res.total = Cardinality({n \in 1..pit : Lo!Matches(q, n)})
      /\ res.cursor = IF Cardinality(I) = PageSize THEN {[pit |-> pit, after |-> Lo!Min(I)]} ELSE {}
  BY Sizes, Latests, Zenon DEF Lo!Found
<1> HIDE DEF res
<1>2. pit \in Nat /\ after \in Nat /\ pit <= MaxLines /\ 1 <= after /\ MaxLines \in Nat \ {0}
  BY RowsAssumption
<1>3. B \in SUBSET (1..pit) /\ \A n \in B : n < after
  BY Zenon
<1>4. {n \in 1..pit : Lo!Matches(q, n)} = Lo!From(q, pit, 1)
  <2>1. \A n \in 1..pit : n >= 1
    BY <1>2
  <2> QED BY <2>1, Zenon DEF Lo!From
<1>5. /\ I \in SUBSET B /\ IsFiniteSet(I) /\ Cardinality(I) \in Nat
      /\ \A e \in B \ I, f \in I : e < f
      /\ B \ I # {} => Cardinality(I) = PageSize
  <2> HIDE DEF B
  <2> QED BY <1>2, <1>3, NewestPage, Zenon
<1>6. \A next \in Nat : {n \in Lo!From(q, pit, next) : n < after} = {n \in B : n >= next}
  BY Zenon DEF Lo!From
<1> HIDE DEF B, I
<1>7. Lo!Listing(Lo!Descending(I), I)
  <2>1. I \in SUBSET (1..pit)
    BY <1>3, <1>5, Zenon
  <2> QED BY <1>2, <2>1, DescendingLists, Zenon
<1>8. CASE Cardinality(I) = PageSize
  <2>1. I # {} /\ I \in SUBSET Nat
    <3>1. I # {}
      BY <1>8, FS_EmptySet, RowsAssumption, Zenon
    <3>2. I \in SUBSET Nat
      BY <1>2, <1>3, <1>5
    <3> QED BY <3>1, <3>2, Zenon
  <2>2. Lo!Min(I) \in I /\ \A f \in I : Lo!Min(I) <= f
    BY <2>1, Oldest, Zenon
  <2>3. Lo!Min(I) \in 1..pit /\ Lo!Min(I) < after
    BY <1>3, <1>5, <2>2, Zenon
  <2>4. Lo!Min(I) \in 1..MaxLines /\ Lo!Min(I) <= after /\ Lo!Min(I) \in Nat
    BY <1>2, <2>3
  <2>5. {n \in B : n >= Lo!Min(I)} = I
    <3>1. ASSUME NEW n \in I PROVE n >= Lo!Min(I)
      <4>1. n \in Nat /\ Lo!Min(I) <= n
        BY <2>1, <2>2, Zenon
      <4> QED BY <2>4, <4>1, Zenon
    <3>2. ASSUME NEW n \in B, n >= Lo!Min(I) PROVE n \in I
      <4> SUFFICES ASSUME n \notin I PROVE FALSE
        BY Zenon
      <4>1. n < Lo!Min(I) /\ n \in 1..pit
        BY <1>3, <1>5, <2>2, <3>2, Zenon
      <4> QED BY <1>2, <2>4, <3>2, <4>1
    <3> QED BY <1>5, <3>1, <3>2, Zenon
  <2>6. Lo!Listing(res.hits, {n \in Lo!From(q, pit, Lo!Min(I)) : n < after})
    BY <1>1, <1>6, <1>7, <2>4, <2>5, Zenon
  <2>7. res.cursor = {[pit |-> pit, after |-> Lo!Min(I)]} /\ res.cursor # {}
    BY <1>1, <1>8, Zenon
  <2> QED BY <1>1, <1>4, <2>4, <2>6, <2>7, Zenon DEF res, Continues
<1>9. CASE Cardinality(I) # PageSize
  <2>1. B = I
    BY <1>5, <1>9, Zenon
  <2>2. {n \in B : n >= 1} = I
    <3>1. \A n \in B : n >= 1
      BY <1>2, <1>3
    <3> QED BY <2>1, <3>1, Zenon
  <2>3. Lo!Listing(res.hits, {n \in Lo!From(q, pit, 1) : n < after})
    BY <1>1, <1>6, <1>7, <2>2, Zenon
  <2>4. res.cursor = {} /\ 1 \in 1..MaxLines /\ 1 <= after
    BY <1>1, <1>2, <1>9
  <2> QED BY <1>1, <1>4, <2>3, <2>4, Zenon DEF res, Continues
<1> QED BY <1>8, <1>9, Zenon

\* The lines of a search are lines of its point in time.
LEMMA FromLines ==
  ASSUME NEW q, NEW pit \in 0..MaxLines, NEW after
  PROVE  Lo!From(q, pit, after) \in SUBSET (1..MaxLines)
<1>1. 1..pit \subseteq 1..MaxLines
  BY RowsAssumption
<1> QED BY <1>1, Zenon DEF Lo!From

\* The page starts, and a search starts, with nothing.
LEMMA NothingShown ==
  ASSUME NEW q
  PROVE  Lo!Listing(<<>>, Lo!From(q, 0, 1)) /\ Cardinality(Lo!From(q, 0, 1)) = 0
<1>1. Lo!From(q, 0, 1) = {}
  <2>1. 1..0 = {}
    OBVIOUS
  <2> QED BY <2>1, Zenon DEF Lo!From
<1>2. <<>> \in Seq(Nat) /\ Len(<<>>) = 0 /\ DOMAIN <<>> = {}
  OBVIOUS
<1> QED BY <1>1, <1>2, FS_EmptySet, ListingIs, Zenon

\* The page opens with nothing searched.
LEMMA SearchInit == Lo!Init => Lo!SearchInv
<1> SUFFICES ASSUME Lo!Init PROVE Lo!SearchInv
  BY Zenon
<1>1. p1 \in 0..MaxLines /\ 0 \in 0..MaxLines /\ 1 \in 1..MaxLines
  BY RowsAssumption DEF Lo!Init
<1>2. p4 = <<>> /\ p5 = {} /\ p6 = 0 /\ p7 = {}
  BY Zenon DEF Lo!Init
<1>3. Lo!Shows(0, 1)
  BY <1>2, NothingShown, Sizes, Zenon DEF Lo!Shows
<1> QED BY <1>1, <1>2, <1>3, Zenon DEF Lo!SearchInv

\* Every step of the page keeps the invariant.
LEMMA SearchNext == Lo!SearchInv /\ [Lo!Next]_(Lo!vars) => Lo!SearchInv'
<1> SUFFICES ASSUME Lo!SearchInv, [Lo!Next]_(Lo!vars) PROVE Lo!SearchInv'
  BY Zenon
<1>1. MaxLines \in Nat /\ 0 \in 0..MaxLines /\ 1 \in 1..MaxLines /\ p1 \in 0..MaxLines
  BY RowsAssumption DEF Lo!SearchInv
<1>2. ~ p9 => /\ \E pit \in 0..MaxLines, after \in 1..MaxLines : Lo!Shows(pit, after)
                 /\ \A r \in p7 : r.query = p8 /\ r.cursor = p5
  BY Zenon DEF Lo!SearchInv
<1>3. ASSUME p1' \in 0..MaxLines, UNCHANGED <<p4, p5, p6, p8>>,
             ~ p9' => ~ p9,
             ~ p9' => \A r \in p7' : r \in p7 \/ (r.query = p8 /\ r.cursor = p5)
      PROVE  Lo!SearchInv'
  <2>1. \A pit \in 0..MaxLines, after \in 1..MaxLines : Lo!Shows(pit, after) => Lo!Shows(pit, after)'
    BY <1>3, Zenon DEF Lo!Shows
  <2> QED BY <1>2, <1>3, <2>1, Zenon DEF Lo!SearchInv
<1>4. CASE Lo!Log
  <2>1. p1' \in 0..MaxLines
    BY <1>1, <1>4 DEF Lo!Log
  <2> QED BY <1>3, <1>4, <2>1, Zenon DEF Lo!Log
<1>5. ASSUME NEW f, Lo!SetForm(f) PROVE Lo!SearchInv'
  BY <1>1, <1>3, <1>5, Zenon DEF Lo!SetForm
<1>6. ASSUME NEW t, Lo!SwitchTenant(t) PROVE Lo!SearchInv'
  BY <1>1, <1>3, <1>6, Zenon DEF Lo!SwitchTenant
<1>7. CASE Lo!Refused \/ UNCHANGED Lo!vars
  <2>1. CASE Lo!Refused
    BY <1>1, <1>3, <2>1, Zenon DEF Lo!Refused
  <2>2. CASE UNCHANGED Lo!vars
    BY <1>1, <1>3, <2>2, Zenon DEF Lo!vars
  <2> QED BY <1>7, <2>1, <2>2, Zenon
<1>8. CASE Lo!run
  <2>1. /\ p4' = <<>> /\ p5' = {} /\ p6' = 0 /\ p8' = Lo!Query /\ p1' = p1
        /\ p7' \in {{}, {[query |-> Lo!Query, cursor |-> {}]}}
    BY <1>8, Zenon DEF Lo!run, Lo!fetchPage
  <2>2. Lo!Shows(0, 1)'
    BY <2>1, NothingShown, Sizes, Zenon DEF Lo!Shows
  <2>3. \A r \in p7' : r.query = p8' /\ r.cursor = p5'
    BY <2>1
  <2> QED BY <1>1, <2>1, <2>2, <2>3, Zenon DEF Lo!SearchInv
<1>9. CASE Lo!loadMore
  <2>1. UNCHANGED <<p1, p4, p5, p6, p8>>
    BY <1>9, Zenon DEF Lo!loadMore
  <2>2. ASSUME ~ p9' PROVE ~ p9 /\ \A r \in p7' : r.query = p8 /\ r.cursor = p5
    <3>1. ~ p9 /\ (p2 = "undated" \/ Lo!Query = p8)
      BY <1>9, <2>2, Zenon DEF Lo!loadMore
    <3>2. p7 = {} /\ p7' = IF p2 = "undated" THEN p7 ELSE {[query |-> Lo!Query, cursor |-> p5]}
      BY <1>9, Zenon DEF Lo!loadMore, Lo!fetchPage
    <3> QED BY <3>1, <3>2
  <2> QED BY <1>1, <1>3, <2>1, <2>2, Zenon
<1>10. CASE Lo!Answered
  <2>1. PICK r \in p7 :
           LET at == IF r.cursor = {} THEN [pit |-> p1, after |-> MaxLines + 1]
                     ELSE CHOOSE c \in r.cursor : TRUE
               res == Lo!Found(r.query, at.pit, at.after)
           IN  /\ p4' = IF r.cursor = {} THEN res.hits ELSE p4 \o res.hits
               /\ p5' = res.cursor /\ p6' = res.total
               /\ p7' = {}
               /\ UNCHANGED <<p1, p2, p3, p8, p9, p10>>
    BY <1>10, Zenon DEF Lo!Answered
  <2>2. p1' = p1 /\ p8' = p8 /\ p9' = p9 /\ p7' = {}
    BY <2>1, Zenon
  <2>3. ASSUME ~ p9 PROVE \E pit \in 0..MaxLines, after \in 1..MaxLines : Lo!Shows(pit, after)'
    <3>1. PICK pit \in 0..MaxLines, after \in 1..MaxLines : Lo!Shows(pit, after)
      BY <1>2, <2>3, Zenon
    <3>2. r.query = p8 /\ r.cursor = p5
      BY <1>2, <2>3, Zenon
    <3>3. CASE p5 = {}
      <4> DEFINE at == [pit |-> p1, after |-> MaxLines + 1]
                 res == Lo!Found(p8, p1, MaxLines + 1)
      <4>1. at.pit = p1 /\ at.after = MaxLines + 1
        BY Zenon
      <4>2. p4' = res.hits /\ p5' = res.cursor /\ p6' = res.total
        <5> HIDE DEF res
        <5>1. Lo!Found(r.query, at.pit, at.after) = res
          BY <3>2, <4>1, Zenon DEF res
        <5> QED BY <2>1, <3>2, <3>3, <5>1, Zenon
      <4> HIDE DEF at, res
      <4>3. MaxLines + 1 \in 1..(MaxLines + 1)
        BY <1>1
      <4>4. PICK next \in 1..MaxLines : Continues(res, p8, p1, MaxLines + 1, next)
        BY <1>1, <4>3, FoundFacts, Zenon DEF res
      <4>5. {n \in Lo!From(p8, p1, next) : n < MaxLines + 1} = Lo!From(p8, p1, next)
        <5>1. \A n \in 1..MaxLines : n < MaxLines + 1
          BY <1>1
        <5>2. Lo!From(p8, p1, next) \in SUBSET (1..MaxLines)
          BY <1>1, FromLines, Zenon
        <5> QED BY <5>1, <5>2, Zenon
      <4>6. res.total = Cardinality(Lo!From(p8, p1, 1))
        BY <1>1, <4>3, FoundFacts, Zenon DEF res
      <4>7. Lo!Shows(p1, next)'
        BY <2>2, <4>2, <4>4, <4>5, <4>6, Sizes, Zenon DEF Continues, Lo!Shows, Lo!From, Lo!Matches
      <4> QED BY <1>1, <2>2, <4>7, Zenon
    <3>4. CASE p5 # {}
      <4> DEFINE at == [pit |-> pit, after |-> after]
                 res == Lo!Found(p8, pit, after)
      <4>1. at.pit = pit /\ at.after = after
        BY Zenon
      <4>2. p5 = {at}
        BY <3>1, <3>4, Zenon DEF Lo!Shows
      <4>3. p4' = p4 \o res.hits /\ p5' = res.cursor /\ p6' = res.total
        <5> HIDE DEF res, at
        <5>1. (CHOOSE c \in r.cursor : TRUE) = at
          <6>1. r.cursor = {at}
            BY <3>2, <4>2, Zenon
          <6> QED BY <6>1, Zenon
        <5>2. Lo!Found(r.query, at.pit, at.after) = res
          BY <3>2, <4>1, Zenon DEF res
        <5> QED BY <2>1, <3>2, <3>4, <5>1, <5>2, Zenon
      <4> HIDE DEF at, res
      <4>4. after \in 1..(MaxLines + 1) /\ after \in Nat
        BY <1>1
      <4>5. PICK next \in 1..MaxLines : Continues(res, p8, pit, after, next)
        BY <4>4, FoundFacts, Zenon DEF res
      <4> DEFINE S == Lo!From(p8, pit, after)
                 T == {n \in Lo!From(p8, pit, next) : n < after}
      <4>6. S \in SUBSET (1..MaxLines) /\ T \in SUBSET (1..MaxLines)
        BY FromLines, Zenon
      <4>7. \A m \in S, n \in T : m > n
        <5>1. \A m \in S : m >= after /\ m \in Nat
          <6>1. \A m \in S : m >= after
            BY Zenon DEF Lo!From
          <6> QED BY <4>6, <6>1
        <5>2. \A n \in T : n < after /\ n \in Nat
          <6>1. \A n \in T : n < after
            BY Zenon
          <6> QED BY <4>6, <6>1
        <5> HIDE DEF S, T
        <5> QED BY <4>4, <5>1, <5>2
      <4>8. S \cup T = Lo!From(p8, pit, next)
        <5>1. \A n \in 1..pit : n >= after => n >= next
          BY <1>1, <4>4, <4>5 DEF Continues
        <5>2. \A n \in 1..pit : n >= after \/ n < after
          BY <1>1, <4>4
        <5> QED BY <5>1, <5>2, Zenon DEF Lo!From
      <4>9. Lo!Listing(p4, S) /\ Lo!Listing(res.hits, T)
        BY <3>1, <4>5, Zenon DEF Continues, Lo!Shows
      <4>10. Lo!Listing(p4 \o res.hits, S \cup T)
        <5> HIDE DEF S, T
        <5> QED BY <1>1, <4>6, <4>7, <4>9, ListingOn, Zenon
      <4>11. res.total = Cardinality(Lo!From(p8, pit, 1))
        BY <4>4, FoundFacts, Zenon DEF res
      <4> HIDE DEF S, T
      <4>12. Lo!Shows(pit, next)'
        BY <2>2, <4>3, <4>5, <4>8, <4>10, <4>11, Sizes, Zenon DEF Continues, Lo!Shows, Lo!From, Lo!Matches
      <4> QED BY <4>12, Zenon
    <3> QED BY <3>3, <3>4, Zenon
  <2> QED BY <1>1, <2>2, <2>3, Zenon DEF Lo!SearchInv
<1> QED BY <1>4, <1>5, <1>6, <1>7, <1>8, <1>9, <1>10, Zenon DEF Lo!Next

\* What the invariant says of the hits on screen.
LEMMA SearchSafe == Lo!SearchInv => Lo!HitsAreTheSearch
<1> SUFFICES ASSUME Lo!SearchInv, ~ p9
             PROVE  /\ \A i \in DOMAIN p4 : Lo!Matches(p8, p4[i])
                    /\ \A i \in 1..(Len(p4) - 1) :
                          /\ p4[i] > p4[i + 1]
                          /\ \A n \in (p4[i + 1] + 1)..(p4[i] - 1) : ~ Lo!Matches(p8, n)
                    /\ p5 = {} => Len(p4) = p6
                    /\ Len(p4) <= p6
  BY Zenon DEF Lo!HitsAreTheSearch
<1>1. PICK pit \in 0..MaxLines, after \in 1..MaxLines : Lo!Shows(pit, after)
  BY Zenon DEF Lo!SearchInv
<1> DEFINE S == Lo!From(p8, pit, after)
<1>2. /\ p4 \in Seq(Nat) /\ Len(p4) = Cardinality(S)
      /\ \A i \in DOMAIN p4 : p4[i] \in S
      /\ \A n \in S : \E i \in DOMAIN p4 : p4[i] = n
      /\ \A i, j \in DOMAIN p4 : i < j => p4[i] > p4[j]
  BY <1>1, ListingIs, Zenon DEF Lo!Shows
<1>3. \A n : n \in S <=> n \in 1..pit /\ n >= after /\ Lo!Matches(p8, n)
  BY Zenon DEF Lo!From
<1>4. \A i \in DOMAIN p4 : Lo!Matches(p8, p4[i])
  BY <1>2, <1>3, Zenon
<1>5. DOMAIN p4 = 1..Len(p4) /\ Len(p4) \in Nat
  BY <1>2
<1>6. p5 = {} => after = 1
  BY <1>1, Zenon DEF Lo!Shows
<1>7. p6 = Cardinality(Lo!From(p8, pit, 1))
  BY <1>1, Sizes, Zenon DEF Lo!Shows
<1>8. Len(p4) <= p6
  <2>1. S \in SUBSET Lo!From(p8, pit, 1)
    <3>1. \A n \in 1..pit : n >= 1
      BY RowsAssumption
    <3> QED BY <3>1, Zenon DEF Lo!From
  <2>2. IsFiniteSet(1..MaxLines)
    BY FS_Interval, RowsAssumption
  <2>3. IsFiniteSet(Lo!From(p8, pit, 1))
    BY <2>2, FromLines, FS_Subset, Zenon
  <2> HIDE DEF S
  <2>4. Cardinality(S) <= Cardinality(Lo!From(p8, pit, 1))
    BY <2>1, <2>3, FS_Subset, Zenon
  <2> QED BY <1>2, <1>7, <2>4, Zenon
<1>9. p5 = {} => Len(p4) = p6
  BY <1>2, <1>6, <1>7, Zenon
<1> HIDE DEF S
<1>10. ASSUME NEW i \in 1..(Len(p4) - 1)
       PROVE  /\ p4[i] > p4[i + 1]
              /\ \A n \in (p4[i + 1] + 1)..(p4[i] - 1) : ~ Lo!Matches(p8, n)
  <2>1. i \in DOMAIN p4 /\ i + 1 \in DOMAIN p4 /\ i < i + 1 /\ i \in Nat
    BY <1>5
  <2>2. p4[i] > p4[i + 1]
    BY <1>2, <2>1, Zenon
  <2>3. p4[i] \in 1..pit /\ p4[i + 1] \in 1..pit /\ p4[i + 1] >= after
    BY <1>2, <1>3, <2>1, Zenon
  <2>4. ASSUME NEW n \in (p4[i + 1] + 1)..(p4[i] - 1), Lo!Matches(p8, n) PROVE FALSE
    <3>1. n \in 1..pit /\ n >= after /\ p4[i + 1] < n /\ n < p4[i] /\ n \in Nat
      BY <2>3, RowsAssumption
    <3>2. PICK j \in DOMAIN p4 : p4[j] = n
      BY <1>2, <1>3, <2>4, <3>1, Zenon
    <3>3. \/ j = i \/ j = i + 1 \/ j < i \/ i + 1 < j
      BY <1>5, <2>1
    <3>4. CASE j = i \/ j = i + 1
      BY <2>3, <3>1, <3>2, <3>4
    <3>5. CASE j < i
      <4>1. p4[j] > p4[i]
        BY <1>2, <2>1, <3>5, Zenon
      <4> QED BY <2>3, <3>1, <3>2, <4>1
    <3>6. CASE i + 1 < j
      <4>1. p4[i + 1] > p4[j]
        BY <1>2, <2>1, <3>6, Zenon
      <4> QED BY <2>3, <3>1, <3>2, <4>1
    <3> QED BY <3>3, <3>4, <3>5, <3>6, Zenon
  <2> QED BY <2>2, <2>4, Zenon
<1> QED BY <1>4, <1>8, <1>9, <1>10, Zenon

(***************************************************************************)
(* The console's long lists                                                *)
(***************************************************************************)

\* A step of the lists is a step of the part that runs.
LEMMA RowsSteps ==
    ASSUME [RowsNext]_vars
    PROVE  /\ part' = part
           /\ part = "timeline" => [Ti!Next]_(Ti!vars)
           /\ part = "logs" => [Lo!Next]_(Lo!vars)
BY DEF RowsNext, vars, Ti!vars, Lo!vars

RowsInv ==
    /\ part = "timeline" => Ti!PagesInv
    /\ part = "logs" => Lo!SearchInv

\* The parts' invariants are invariants of the lists.
LEMMA RowsSafe == RowsSpec => []RowsInv
<1>1. RowsInit => RowsInv
  <2> SUFFICES ASSUME RowsInit PROVE RowsInv
    OBVIOUS
  <2>1. (part = "timeline" => Ti!Init) /\ (part = "logs" => Lo!Init)
    BY DEF RowsInit
  <2> QED BY <2>1, TimelineInit, SearchInit, Zenon DEF RowsInv
<1>2. RowsInv /\ [RowsNext]_vars => RowsInv'
  <2> SUFFICES ASSUME RowsInv, [RowsNext]_vars PROVE RowsInv'
    OBVIOUS
  <2>1. part' = part
    BY RowsSteps, Zenon
  <2>2. part = "timeline" => Ti!PagesInv'
    BY RowsSteps, TimelineNext, Zenon DEF RowsInv
  <2>3. part = "logs" => Lo!SearchInv'
    BY RowsSteps, SearchNext, Zenon DEF RowsInv
  <2> QED BY <2>1, <2>2, <2>3, Zenon DEF RowsInv
<1> QED BY <1>1, <1>2, PTL DEF RowsSpec

\* No event of a timeline is listed twice, out of order or skipped, whatever is ingested, refetched,
\* cancelled or failed meanwhile (useReliabilityEvents, list_page).
THEOREM NothingSkipped == RowsSpec => []NoEventSkipped
<1>1. RowsInv => NoEventSkipped
  BY TimelineSafe, Zenon DEF RowsInv, NoEventSkipped
<1> QED BY <1>1, RowsSafe, PTL

\* The hits of a log search are an unbroken run of the lines of that search, newest first, and the
\* count is theirs, unless a later page was asked for with another form (LogsPage, fetchPage).
THEOREM HitsOfTheSearch == RowsSpec => []HitsAreTheSearch
<1>1. RowsInv => HitsAreTheSearch
  BY SearchSafe, Zenon DEF RowsInv, HitsAreTheSearch
<1> QED BY <1>1, RowsSafe, PTL

(***************************************************************************)
(* The types of the long lists                                             *)
(***************************************************************************)

\* The job of a timeline is one of three.
LEMMA TimelineTypes ==
    /\ Ti!Init => p4 \in {"none", "next", "all"}
    /\ p4 \in {"none", "next", "all"} /\ [Ti!Next]_(Ti!vars) => p4' \in {"none", "next", "all"}
BY Zenon DEF Ti!Init, Ti!Next, Ti!vars, Ti!Ingest, Ti!PageAnswered, Ti!FetchNext, Ti!NextAnswered, Ti!FetchFailed, Ti!Focus

\* The pages of a timeline have their types.
LEMMA TimelineTyped == Ti!PagesInv /\ p4 \in {"none", "next", "all"} => Ti!TypeOK
BY Zenon DEF Ti!PagesInv, Ti!Unbroken, Ti!TypeOK

Positions == [pit : 0..MaxLines, after : 1..MaxLines]

\* A sequence over a set, and the concatenation of two.
LEMMA Over ==
  ASSUME NEW T
  PROVE  /\ \A s \in Seq(Nat) : (\A i \in DOMAIN s : s[i] \in T) => s \in Seq(T)
         /\ \A s, t \in Seq(T) : s \o t \in Seq(T)
<1>1. ASSUME NEW s \in Seq(Nat), \A i \in DOMAIN s : s[i] \in T PROVE s \in Seq(T)
  <2>1. s \in [1..Len(s) -> T] /\ Len(s) \in Nat
    BY <1>1
  <2> QED BY <2>1
<1>2. ASSUME NEW s \in Seq(T), NEW t \in Seq(T) PROVE s \o t \in Seq(T)
  OBVIOUS
<1> QED BY <1>1, <1>2, Zenon

\* The types of what a search finds.
LEMMA FoundTypes ==
  ASSUME NEW q, NEW pit \in 0..MaxLines, NEW after \in 1..(MaxLines + 1)
  PROVE  /\ Lo!Found(q, pit, after).hits \in Seq(1..MaxLines)
         /\ Lo!Found(q, pit, after).total \in 0..MaxLines
         /\ Lo!Found(q, pit, after).cursor \subseteq Positions
<1> DEFINE res == Lo!Found(q, pit, after)
<1>1. PICK next \in 1..MaxLines : Continues(res, q, pit, after, next)
  BY FoundFacts, Zenon
<1>2. res.total = Cardinality(Lo!From(q, pit, 1))
  BY FoundFacts, Zenon
<1> HIDE DEF res
<1>3. pit \in Nat /\ pit <= MaxLines /\ MaxLines \in Nat /\ 1..pit \subseteq 1..MaxLines
  BY RowsAssumption
<1>4. res.total \in 0..MaxLines
  <2>1. Lo!From(q, pit, 1) \in SUBSET (1..pit)
    BY Zenon DEF Lo!From
  <2>2. IsFiniteSet(1..pit) /\ Cardinality(1..pit) = pit
    BY <1>3, FS_Interval
  <2>3. IsFiniteSet(Lo!From(q, pit, 1)) /\ Cardinality(Lo!From(q, pit, 1)) <= pit
    BY <2>1, <2>2, FS_Subset, Zenon
  <2>4. Cardinality(Lo!From(q, pit, 1)) \in Nat
    BY <2>3, FS_CardinalityType, Zenon
  <2> QED BY <1>2, <1>3, <2>3, <2>4
<1>5. res.hits \in Seq(1..MaxLines)
  <2>1. PICK S \in SUBSET (1..pit) : Lo!Listing(res.hits, S)
    BY <1>1, Zenon DEF Continues, Lo!From
  <2>2. res.hits \in Seq(Nat) /\ \A i \in DOMAIN res.hits : res.hits[i] \in 1..MaxLines
    BY <1>3, <2>1, Zenon DEF Lo!Listing
  <2> QED BY <2>2, Over, Zenon
<1>6. res.cursor \subseteq Positions
  <2>1. [pit |-> pit, after |-> next] \in Positions
    BY Zenon DEF Positions
  <2>2. res.cursor = {} \/ res.cursor = {[pit |-> pit, after |-> next]}
    BY <1>1, Zenon DEF Continues
  <2> QED BY <2>1, <2>2, Zenon
<1> QED BY <1>4, <1>5, <1>6, Zenon DEF res

\* Every step of the log search leaves the types.
LEMMA SearchTypes == Lo!TypeOK /\ [Lo!Next]_(Lo!vars) => Lo!TypeOK'
<1> SUFFICES ASSUME Lo!TypeOK, [Lo!Next]_(Lo!vars) PROVE Lo!TypeOK'
  BY Zenon
<1>1. MaxLines \in Nat \ {0} /\ MaxChanges \in Nat /\ 0 \in 0..MaxLines /\ <<>> \in Seq(1..MaxLines)
  BY RowsAssumption
<1>2. CASE Lo!Log
  <2>1. p1' \in 0..MaxLines
    BY <1>1, <1>2 DEF Lo!Log, Lo!TypeOK
  <2> QED BY <1>2, <2>1, Zenon DEF Lo!Log, Lo!TypeOK
<1>3. ASSUME NEW f \in Lo!Filters \union {"undated"}, Lo!SetForm(f) PROVE Lo!TypeOK'
  <2>1. p10' \in 0..MaxChanges
    BY <1>1, <1>3 DEF Lo!SetForm, Lo!TypeOK
  <2> QED BY <1>3, <2>1, Zenon DEF Lo!SetForm, Lo!TypeOK
<1>4. ASSUME NEW t \in Lo!ActiveTenants, Lo!SwitchTenant(t) PROVE Lo!TypeOK'
  <2>1. p10' \in 0..MaxChanges
    BY <1>1, <1>4 DEF Lo!SwitchTenant, Lo!TypeOK
  <2> QED BY <1>4, <2>1, Zenon DEF Lo!SwitchTenant, Lo!TypeOK
<1>5. /\ Lo!Query \in [tenant : Lo!ActiveTenants, form : Lo!Filters \union {"undated"}]
      /\ p2 # "undated" => Lo!Query \in [tenant : Lo!ActiveTenants, form : Lo!Filters]
  BY Zenon DEF Lo!Query, Lo!TypeOK
<1>6. ASSUME NEW c \in SUBSET Positions, Lo!fetchPage(c)
      PROVE  p7' \subseteq [query : [tenant : Lo!ActiveTenants, form : Lo!Filters], cursor : SUBSET Positions]
  <2>1. CASE p2 = "undated"
    BY <1>6, <2>1, Zenon DEF Lo!fetchPage, Lo!TypeOK, Positions
  <2>2. CASE p2 # "undated"
    <3>1. p7' = {[query |-> Lo!Query, cursor |-> c]}
      BY <1>6, <2>2, Zenon DEF Lo!fetchPage
    <3>2. Lo!Query \in [tenant : Lo!ActiveTenants, form : Lo!Filters] /\ c \in SUBSET Positions
      BY <1>5, <1>6, <2>2, Zenon
    <3>3. \A A, B : \A q \in A, d \in B : [query |-> q, cursor |-> d] \in [query : A, cursor : B]
      BY Zenon
    <3>4. [query |-> Lo!Query, cursor |-> c] \in [query : [tenant : Lo!ActiveTenants, form : Lo!Filters], cursor : SUBSET Positions]
      BY <3>2, <3>3, Zenon
    <3> QED BY <3>1, <3>4, Zenon
  <2> QED BY <2>1, <2>2, Zenon
<1>7. CASE Lo!run
  <2>1. p7' \subseteq [query : [tenant : Lo!ActiveTenants, form : Lo!Filters], cursor : SUBSET Positions]
    BY <1>6, <1>7, Zenon DEF Lo!run
  <2> QED BY <1>1, <1>5, <1>7, <2>1, Zenon DEF Lo!run, Lo!TypeOK, Positions
<1>8. CASE Lo!loadMore
  <2>1. p7' \subseteq [query : [tenant : Lo!ActiveTenants, form : Lo!Filters], cursor : SUBSET Positions]
    BY <1>6, <1>8, Zenon DEF Lo!loadMore, Lo!TypeOK, Positions
  <2>2. p9' \in BOOLEAN
    BY <1>8, Zenon DEF Lo!loadMore
  <2> QED BY <1>8, <2>1, <2>2, Zenon DEF Lo!loadMore, Lo!TypeOK, Positions
<1>9. CASE Lo!Answered
  <2> DEFINE At(r) == IF r.cursor = {} THEN [pit |-> p1, after |-> MaxLines + 1]
                      ELSE CHOOSE c \in r.cursor : TRUE
  <2>1. PICK r \in p7 :
           LET res == Lo!Found(r.query, At(r).pit, At(r).after)
           IN  /\ p4' = IF r.cursor = {} THEN res.hits ELSE p4 \o res.hits
               /\ p5' = res.cursor /\ p6' = res.total
               /\ p7' = {} /\ UNCHANGED <<p1, p2, p3, p8, p9, p10>>
    BY <1>9, Zenon DEF Lo!Answered
  <2>2. At(r).pit \in 0..MaxLines /\ At(r).after \in 1..(MaxLines + 1)
    <3>1. r.cursor \subseteq Positions /\ p1 \in 0..MaxLines
      BY Zenon DEF Lo!TypeOK, Positions
    <3>2. CASE r.cursor = {}
      BY <1>1, <3>1, <3>2
    <3>3. CASE r.cursor # {}
      <4>1. At(r) \in Positions
        BY <3>1, <3>3, Zenon
      <4>2. At(r).pit \in 0..MaxLines /\ At(r).after \in 1..MaxLines
        BY <4>1, Zenon DEF Positions
      <4> QED BY <1>1, <4>2
    <3> QED BY <3>2, <3>3, Zenon
  <2> DEFINE res == Lo!Found(r.query, At(r).pit, At(r).after)
  <2>3. res.hits \in Seq(1..MaxLines) /\ res.total \in 0..MaxLines /\ res.cursor \subseteq Positions
    BY <2>2, FoundTypes, Zenon
  <2>4. /\ p4' = res.hits \/ p4' = p4 \o res.hits
        /\ p5' = res.cursor /\ p6' = res.total
        /\ p7' = {} /\ UNCHANGED <<p1, p2, p3, p8, p9, p10>>
    BY <2>1, Zenon
  <2> HIDE DEF res
  <2>5. p4' \in Seq(1..MaxLines)
    <3>1. p4 \in Seq(1..MaxLines)
      BY Zenon DEF Lo!TypeOK
    <3> QED BY <2>3, <2>4, <3>1, Over, Zenon
  <2> QED BY <2>3, <2>4, <2>5, Zenon DEF Lo!TypeOK, Positions
<1>10. CASE Lo!Refused \/ UNCHANGED Lo!vars
  BY <1>10, Zenon DEF Lo!Refused, Lo!vars, Lo!TypeOK
<1> QED BY <1>2, <1>3, <1>4, <1>7, <1>8, <1>9, <1>10, Zenon DEF Lo!Next

\* The log search starts with its types.
LEMMA SearchTyped == Lo!Init => Lo!TypeOK
<1> SUFFICES ASSUME Lo!Init PROVE Lo!TypeOK
  BY Zenon
<1>1. p1 \in 0..MaxLines /\ 0 \in 0..MaxLines /\ 0 \in 0..MaxChanges /\ <<>> \in Seq(1..MaxLines) /\ 1 \in {1, 2}
  BY RowsAssumption DEF Lo!Init
<1> QED BY <1>1, Zenon DEF Lo!Init, Lo!TypeOK, Lo!Filters, Lo!ActiveTenants

RowsTypes ==
    /\ part = "timeline" => Ti!TypeOK
    /\ part = "logs" => Lo!TypeOK

\* The variables of the timelines and of the log search have their types.
THEOREM RowsTypesSafe == RowsSpec => []RowsTypes
<1> DEFINE Inv == /\ part = "timeline" => Ti!PagesInv /\ p4 \in {"none", "next", "all"}
                  /\ part = "logs" => Lo!TypeOK
<1>1. RowsInit => Inv
  <2>1. RowsInit => (part = "timeline" => Ti!Init) /\ (part = "logs" => Lo!Init)
    BY Zenon DEF RowsInit
  <2> QED BY <2>1, TimelineInit, TimelineTypes, SearchTyped, Zenon
<1>2. Inv /\ [RowsNext]_vars => Inv'
  BY RowsSteps, TimelineNext, TimelineTypes, SearchTypes, Zenon
<1>3. Inv => RowsTypes
  BY TimelineTyped, Zenon DEF RowsTypes
<1> QED BY <1>1, <1>2, <1>3, PTL DEF RowsSpec
===============================================================================
