-------------------------- MODULE EventStoreProofs --------------------------
(***************************************************************************)
(* Proofs about EventStore: what the queries of the store answer, for any  *)
(* set of events whose times fit into the index keys.                      *)
(***************************************************************************)
EXTENDS EventStore, FiniteSetTheorems, SequenceTheorems, WellFoundedInduction, TLAPS

-----------------------------------------------------------------------------
(* The members of a finite set in an order of theirs *)

\* R orders the members of S: of any two, one comes before the other.
Orders(R, S) ==
    /\ \A x \in S : <<x, x>> \notin R
    /\ \A x, y, z \in S : <<x, y>> \in R /\ <<y, z>> \in R => <<x, z>> \in R
    /\ \A x, y \in S : x = y \/ <<x, y>> \in R \/ <<y, x>> \in R

Below(R, S, x) == {y \in S : <<y, x>> \in R}

\* A sequence that holds every member of a set once, in the order of R.
Lists(s, S, R) ==
    /\ s \in Seq(S) /\ s \in [1..Cardinality(S) -> S]
    /\ Len(s) = Cardinality(S) /\ Range(s) = S
    /\ \A i, j \in DOMAIN s : i < j => <<s[i], s[j]>> \in R
    /\ \A i, j \in DOMAIN s : s[i] = s[j] => i = j

\* The number of members before one of them tells it from the others.
LEMMA Ranks ==
    ASSUME NEW S, IsFiniteSet(S), NEW R, Orders(R, S)
    PROVE  /\ \A x \in S : Cardinality(Below(R, S, x)) \in 0..(Cardinality(S) - 1)
           /\ \A x, y \in S : <<x, y>> \in R => Cardinality(Below(R, S, x)) < Cardinality(Below(R, S, y))
<1>0. Cardinality(S) \in Nat  BY FS_CardinalityType
<1>1. ASSUME NEW x \in S
      PROVE  IsFiniteSet(Below(R, S, x)) /\ Cardinality(Below(R, S, x)) \in Nat
  <2>1. Below(R, S, x) \in SUBSET S  BY DEF Below
  <2>2. IsFiniteSet(Below(R, S, x))  BY <2>1, FS_Subset
  <2>. QED  BY <2>2, FS_CardinalityType
<1>2. ASSUME NEW x \in S
      PROVE  Cardinality(Below(R, S, x)) < Cardinality(S)
  <2>1. Below(R, S, x) \in SUBSET S /\ x \notin Below(R, S, x)  BY DEF Below, Orders
  <2>2. Cardinality(Below(R, S, x)) <= Cardinality(S) /\ Cardinality(Below(R, S, x)) # Cardinality(S)
    BY <2>1, FS_Subset
  <2>. QED  BY <1>0, <1>1, <2>2
<1>3. ASSUME NEW x \in S, NEW y \in S, <<x, y>> \in R
      PROVE  Cardinality(Below(R, S, x)) < Cardinality(Below(R, S, y))
  <2>1. Below(R, S, x) \in SUBSET Below(R, S, y)  BY <1>3 DEF Below, Orders
  <2>2. x \in Below(R, S, y) /\ x \notin Below(R, S, x)  BY <1>3 DEF Below, Orders
  <2>3. /\ Cardinality(Below(R, S, x)) <= Cardinality(Below(R, S, y))
        /\ Cardinality(Below(R, S, x)) # Cardinality(Below(R, S, y))
    BY <1>1, <2>1, <2>2, FS_Subset
  <2>. QED  BY <1>1, <2>3
<1>. QED  BY <1>0, <1>1, <1>2, <1>3

\* There is a member with any number before it, and taking at each position the
\* one with that many lists them all.
LEMMA Ranked ==
    ASSUME NEW S, IsFiniteSet(S), NEW R, Orders(R, S)
    PROVE  /\ \A i \in 1..Cardinality(S) : \E x \in S : Cardinality(Below(R, S, x)) = i - 1
           /\ \A s \in [1..Cardinality(S) -> S] :
                 (\A i \in 1..Cardinality(S) : Cardinality(Below(R, S, s[i])) = i - 1) => Lists(s, S, R)
<1>0. Cardinality(S) \in Nat  BY FS_CardinalityType
<1> DEFINE n == Cardinality(S)
           rank == [x \in S |-> Cardinality(Below(R, S, x))]
<1>1. rank \in [S -> 0..(n - 1)] /\ \A x, y \in S : <<x, y>> \in R => rank[x] < rank[y]  BY Ranks
<1>2. rank \in Injection(S, 0..(n - 1))
  <2>1. ASSUME NEW x \in S, NEW y \in S, rank[x] = rank[y] PROVE x = y
    <3>1. rank[x] \in Int /\ rank[y] \in Int  BY <1>0, <1>1
    <3>2. ~(rank[x] < rank[y]) /\ ~(rank[y] < rank[x])  BY <2>1, <3>1
    <3>3. <<x, y>> \notin R /\ <<y, x>> \notin R  BY <1>1, <3>2
    <3>. QED  BY <3>3 DEF Orders
  <2>2. DOMAIN rank = S  OBVIOUS
  <2>. HIDE DEF rank
  <2>. QED  BY <1>1, <2>1, <2>2 DEF Injection, IsInjective
<1>3. rank \in Surjection(S, 0..(n - 1))
  <2>1. IsFiniteSet(0..(n - 1)) /\ Cardinality(0..(n - 1)) = n  BY <1>0, FS_Interval
  <2>. QED  BY <1>2, <2>1, FS_Injection
<1>a. ASSUME NEW i \in 1..n PROVE \E x \in S : Cardinality(Below(R, S, x)) = i - 1
  <2>1. i - 1 \in 0..(n - 1)  BY <1>0
  <2>2. PICK x \in S : rank[x] = i - 1  BY <1>3, <2>1 DEF Surjection
  <2>. QED  BY <2>2
<1> SUFFICES ASSUME NEW s \in [1..n -> S],
                    \A i \in 1..n : Cardinality(Below(R, S, s[i])) = i - 1
             PROVE  Lists(s, S, R)
  BY <1>a
<1>4. ASSUME NEW i \in 1..n PROVE s[i] \in S /\ rank[s[i]] = i - 1  OBVIOUS
<1>5. s \in [1..n -> S]  BY <1>4
<1>6. s \in Seq(S) /\ Len(s) = n /\ DOMAIN s = 1..n
  <2>1. s \in Seq(S)  BY <1>0, <1>5, SeqDef
  <2>2. Len(s) = n  BY <1>0, <1>5, <2>1, LenProperties
  <2>. QED  BY <1>5, <2>1, <2>2
<1>7. Range(s) = S
  <2>1. ASSUME NEW x \in S PROVE x \in Range(s)
    <3>1. rank[x] \in 0..(n - 1)  BY <1>1
    <3>2. rank[x] + 1 \in 1..n /\ (rank[x] + 1) - 1 = rank[x]  BY <1>0, <3>1
    <3>3. s[rank[x] + 1] \in S /\ rank[s[rank[x] + 1]] = rank[x]  BY <1>4, <3>2
    <3>4. s[rank[x] + 1] = x  BY <1>2, <3>3 DEF Injection, IsInjective
    <3>. QED  BY <1>6, <3>2, <3>4 DEF Range
  <2>2. \A x \in Range(s) : x \in S  BY <1>5, <1>6 DEF Range
  <2>. QED  BY <2>1, <2>2
<1>8. ASSUME NEW i \in 1..n, NEW j \in 1..n, i < j PROVE <<s[i], s[j]>> \in R
  <2>1. s[i] \in S /\ s[j] \in S /\ rank[s[i]] = i - 1 /\ rank[s[j]] = j - 1  BY <1>4
  <2>2. s[i] # s[j] /\ ~(rank[s[j]] < rank[s[i]])  BY <1>0, <1>8, <2>1
  <2>. HIDE DEF rank
  <2>. QED  BY <1>1, <2>1, <2>2 DEF Orders
<1>9. ASSUME NEW i \in 1..n, NEW j \in 1..n, s[i] = s[j] PROVE i = j
  <2>1. i - 1 = j - 1  BY <1>4, <1>9
  <2>. QED  BY <1>0, <2>1
<1>. QED
  <2> HIDE DEF n
  <2>. QED  BY <1>5, <1>6, <1>7, <1>8, <1>9 DEF Lists, n

\* The times of the events fit into the keys, and an id is that of one event.
Timed(evt) ==
    /\ IsFiniteSet(evt)
    /\ \A e \in evt : e.id \in Int /\ e.at \in Nat /\ Unsigned(e.at) = e.at
    /\ \A a, b \in evt : a.id = b.id => a = b

AfterIn(S) == {p \in S \X S : After(p[1], p[2])}

\* The keys of an index list its events newest first.
LEMMA AfterLists ==
    ASSUME NEW S, Timed(S)
    PROVE  Lists(InOrder(S, After), S, AfterIn(S))
<1> DEFINE R == AfterIn(S)
<1>1. \A x, y \in S : <<x, y>> \in R <=> (x.at > y.at \/ (x.at = y.at /\ x.id > y.id))
  BY DEF Timed, After, AfterIn
<1>2. Orders(R, S)
  <2>. HIDE DEF R
  <2>1. \A x \in S : x.id \in Int /\ x.at \in Int  BY DEF Timed
  <2>2. \A x \in S : <<x, x>> \notin R  BY <1>1, <2>1
  <2>3. ASSUME NEW x \in S, NEW y \in S, NEW z \in S, <<x, y>> \in R, <<y, z>> \in R PROVE <<x, z>> \in R
    BY <1>1, <2>1, <2>3
  <2>4. ASSUME NEW x \in S, NEW y \in S, x # y PROVE <<x, y>> \in R \/ <<y, x>> \in R
    <3>1. x.id # y.id  BY <2>4 DEF Timed
    <3>. QED  BY <1>1, <2>1, <3>1
  <2>. QED  BY <2>2, <2>3, <2>4 DEF Orders
<1>3. \A x \in S : Below(R, S, x) = {y \in S : After(y, x)}  BY DEF Below, AfterIn
<1> DEFINE s == InOrder(S, After)
<1>4. \A i \in 1..Cardinality(S) : \E x \in S : Cardinality({y \in S : After(y, x)}) = i - 1
  <2>. SUFFICES ASSUME NEW i \in 1..Cardinality(S)
                PROVE  \E x \in S : Cardinality({y \in S : After(y, x)}) = i - 1
    OBVIOUS
  <2>. HIDE DEF R
  <2>1. PICK x \in S : Cardinality(Below(R, S, x)) = i - 1  BY <1>2, Ranked DEF Timed
  <2>. QED  BY <1>3, <2>1
<1>5. s \in [1..Cardinality(S) -> S]  BY <1>4 DEF InOrder
<1>6. ASSUME NEW i \in 1..Cardinality(S) PROVE Cardinality(Below(R, S, s[i])) = i - 1
  <2>1. s[i] = CHOOSE x \in S : Cardinality({y \in S : After(y, x)}) = i - 1  BY DEF InOrder
  <2>2. s[i] \in S /\ Cardinality({y \in S : After(y, s[i])}) = i - 1  BY <1>4, <2>1
  <2>. QED  BY <1>3, <2>2
<1>. QED
  <2>. HIDE DEF R, s
  <2>1. Lists(s, S, R)  BY <1>2, <1>5, <1>6, Ranked DEF Timed
  <2>. QED  BY <2>1 DEF R, s
\* The positions of a sequence, in their order.
LEMMA IndexLists ==
    ASSUME NEW S \in SUBSET Nat, IsFiniteSet(S)
    PROVE  Lists(InOrder(S, <), S, {p \in S \X S : p[1] < p[2]})
<1> DEFINE R == {p \in S \X S : p[1] < p[2]}
           s == InOrder(S, <)
<1>1. \A x, y \in S : <<x, y>> \in R <=> x < y  OBVIOUS
<1>2. Orders(R, S)
  <2>. HIDE DEF R
  <2>. QED  BY <1>1 DEF Orders
<1>3. \A x \in S : Below(R, S, x) = {y \in S : y < x}  BY DEF Below
<1>4. \A i \in 1..Cardinality(S) : \E x \in S : Cardinality({y \in S : y < x}) = i - 1
  <2>. SUFFICES ASSUME NEW i \in 1..Cardinality(S)
                PROVE  \E x \in S : Cardinality({y \in S : y < x}) = i - 1
    OBVIOUS
  <2>. HIDE DEF R
  <2>1. PICK x \in S : Cardinality(Below(R, S, x)) = i - 1  BY <1>2, Ranked
  <2>. QED  BY <1>3, <2>1
<1>5. s \in [1..Cardinality(S) -> S]  BY <1>4 DEF InOrder
<1>6. ASSUME NEW i \in 1..Cardinality(S) PROVE Cardinality(Below(R, S, s[i])) = i - 1
  <2>1. s[i] = CHOOSE x \in S : Cardinality({y \in S : y < x}) = i - 1  BY DEF InOrder
  <2>2. s[i] \in S /\ Cardinality({y \in S : y < s[i]}) = i - 1  BY <1>4, <2>1
  <2>. QED  BY <1>3, <2>2
<1>. QED
  <2>. HIDE DEF R, s
  <2>1. Lists(s, S, R)  BY <1>2, <1>5, <1>6, Ranked
  <2>. QED  BY <2>1 DEF R, s

-----------------------------------------------------------------------------
(* Parts of a sequence *)

\* Picking leaves the entries at the given positions, in their order.
LEMMA PickedIs ==
    ASSUME NEW T, NEW s \in Seq(T), NEW at \in SUBSET DOMAIN s
    PROVE  /\ Picked(s, at) \in Seq(T)
           /\ Range(Picked(s, at)) = {s[i] : i \in at}
           /\ \A m, n \in DOMAIN Picked(s, at) : m < n =>
                 \E i, j \in at : i < j /\ Picked(s, at)[m] = s[i] /\ Picked(s, at)[n] = s[j]
<1> DEFINE o == InOrder(at, <)  q == Picked(s, at)
<1>0. Len(s) \in Nat /\ DOMAIN s = 1..Len(s) /\ \A i \in DOMAIN s : s[i] \in T  BY LenProperties, ElementOfSeq
<1>1. at \in SUBSET Nat /\ IsFiniteSet(at)
  <2>1. IsFiniteSet(1..Len(s))  BY <1>0, FS_Interval
  <2>. QED  BY <1>0, <2>1, FS_Subset
<1>2. Lists(o, at, {p \in at \X at : p[1] < p[2]})  BY <1>1, IndexLists
<1>3. /\ Cardinality(at) \in Nat /\ DOMAIN o = 1..Cardinality(at) /\ Range(o) = at
      /\ \A n \in DOMAIN o : o[n] \in at
      /\ \A m, n \in DOMAIN o : m < n => o[m] < o[n]
  <2>. HIDE DEF o
  <2>. QED  BY <1>1, <1>2, FS_CardinalityType DEF Lists
<1>4. q = [n \in DOMAIN o |-> s[o[n]]]  BY DEF Picked
<1> HIDE DEF o, q
<1>5. q \in [1..Cardinality(at) -> T]  BY <1>0, <1>3, <1>4
<1>6. q \in Seq(T)  BY <1>3, <1>5, SeqDef
<1>7. Range(q) = {s[i] : i \in at}  BY <1>3, <1>4 DEF Range
<1>8. ASSUME NEW m \in DOMAIN q, NEW n \in DOMAIN q, m < n
      PROVE  \E i, j \in at : i < j /\ q[m] = s[i] /\ q[n] = s[j]
  <2>1. o[m] \in at /\ o[n] \in at /\ o[m] < o[n] /\ q[m] = s[o[m]] /\ q[n] = s[o[n]]  BY <1>3, <1>4, <1>8
  <2>. QED  BY <2>1
<1>. QED  BY <1>6, <1>7, <1>8 DEF q

\* The beginning of a sequence.
LEMMA CutIs ==
    ASSUME NEW T, NEW s \in Seq(T), NEW n \in Nat
    PROVE  /\ Cut(s, n) \in Seq(T) /\ Len(Cut(s, n)) = (IF Len(s) < n THEN Len(s) ELSE n)
           /\ \A i \in DOMAIN Cut(s, n) : i \in DOMAIN s /\ Cut(s, n)[i] = s[i]
           /\ Len(s) <= n => Cut(s, n) = s
<1> DEFINE k == IF Len(s) < n THEN Len(s) ELSE n
<1>1. Len(s) \in Nat /\ DOMAIN s = 1..Len(s) /\ \A i \in 1..Len(s) : s[i] \in T  BY LenProperties, ElementOfSeq
<1>2. k \in Nat /\ k <= Len(s)  BY <1>1
<1>3. \A i \in 1..k : s[i] \in T  BY <1>1, <1>2
<1>8. Len(s) <= n => k = Len(s)
  <2>1. CASE Len(s) < n  BY <2>1
  <2>2. CASE Len(s) = n  BY <2>2
  <2>3. Len(s) \in Nat  BY <1>1
  <2>. HIDE DEF k
  <2>. QED  BY <2>1, <2>2, <2>3
<1> HIDE DEF k
<1>4. /\ SubSeq(s, 1, k) \in Seq(T) /\ Len(SubSeq(s, 1, k)) = (IF 1 <= k THEN k - 1 + 1 ELSE 0)
      /\ \A i \in 1..(k - 1 + 1) : SubSeq(s, 1, k)[i] = s[1 + i - 1]
  BY <1>2, <1>3, SubSeqProperties
<1>5. Len(SubSeq(s, 1, k)) = k  BY <1>2, <1>4
<1>6. DOMAIN SubSeq(s, 1, k) = 1..k  BY <1>4, <1>5, LenProperties
<1>7. \A i \in 1..k : i \in DOMAIN s /\ SubSeq(s, 1, k)[i] = s[i]  BY <1>1, <1>2, <1>4
<1>9. Len(s) <= n => SubSeq(s, 1, k) = s  BY <1>8, SubSeqFull
<1>. QED  BY <1>4, <1>5, <1>6, <1>7, <1>9 DEF Cut, k

\* A set of numbers that is not empty has a least one.
LEMMA MinOf ==
    ASSUME NEW T \in SUBSET Nat, T # {}
    PROVE  Min(T) \in T /\ \A n \in T : Min(T) <= n
<1>1. PICK n \in T : \A m \in T : <<m, n>> \notin OpToRel(<, Nat)
  <2>1. IsWellFoundedOn(OpToRel(<, Nat), Nat)  BY NatLessThanWellFounded
  <2>. QED  BY <2>1, WFMin
<1>2. ASSUME NEW m \in T PROVE n <= m
  <2>1. <<m, n>> \in Nat \X Nat /\ <<m, n>>[1] = m /\ <<m, n>>[2] = n  OBVIOUS
  <2>2. ~(m < n)  BY <1>1, <2>1 DEF OpToRel
  <2>. QED  BY <2>2
<1>. QED  BY <1>2 DEF Min

\* What a tag says is one of its values.
LEMMA FirstIs ==
    ASSUME NEW e, e.tags \in Seq(Range(e.tags)), NEW n, First(e, {n}) # None
    PROVE  First(e, {n}) \in Values(e, n)
<1> DEFINE at == {i \in DOMAIN e.tags : Len(e.tags[i]) >= 2 /\ e.tags[i][1] \in {n}}
<1>1. at # {} /\ First(e, {n}) = e.tags[Min(at)][2]  BY DEF First
<1>2. at \in SUBSET Nat  BY LenProperties
<1>3. \A i \in at : i \in DOMAIN e.tags /\ Len(e.tags[i]) >= 2 /\ e.tags[i][1] = n  OBVIOUS
<1> HIDE DEF at
<1>4. Min(at) \in at  BY <1>1, <1>2, MinOf
<1>5. e.tags[Min(at)] \in Range(e.tags)  BY <1>3, <1>4 DEF Range
<1>. QED  BY <1>1, <1>3, <1>4, <1>5 DEF Values

LEMMA OneValue ==
    ASSUME NEW v
    PROVE  <<v>> \in Seq(Range(<<v>>)) /\ Range(<<v>>) = {v} /\ <<v>> # <<>>
<1>1. DOMAIN <<v>> = {1} /\ <<v>>[1] = v  OBVIOUS
<1>2. Range(<<v>>) = {v}  BY <1>1 DEF Range
<1>. QED  BY <1>2

LEMMA AnyIs ==
           /\ AnyFilter = [ids |-> <<>>, pubkeys |-> <<>>, kinds |-> <<>>, tags |-> <<>>,
                           since |-> None, until |-> None, search |-> None, limit |-> 0]
           /\ DOMAIN AnyFilter.tags = {} /\ IsInjective(<<>>) /\ <<>> \in Seq(Range(<<>>))
<1>1. DOMAIN <<>> = {}  OBVIOUS
<1>. QED  BY <1>1 DEF AnyFilter, IsInjective

-----------------------------------------------------------------------------
(* One prefix of an index *)

\* The bounds of a filter fit into the keys as well.
Bounded(f) ==
    /\ f.until # None => f.until \in Int /\ Unsigned(f.until) = f.until
    /\ f.since # None => f.since \in Int
    /\ f.limit \in Int

\* A sequence that holds every event of a set once, newest first.
Holds(r, S) ==
    /\ r \in Seq(S) /\ Range(r) = S
    /\ \A i, j \in DOMAIN r : r[i] = r[j] => i = j
    /\ \A i, j \in DOMAIN r : i < j => r[i].at >= r[j].at

\* The scan ends where the events get too old.
LEMMA FreshIs ==
    ASSUME NEW S, Timed(S), NEW s, Lists(s, S, AfterIn(S)), NEW since, since # None => since \in Int
    PROVE  LET r == Fresh(s, since) IN
           /\ r \in Seq(S) /\ Range(r) = {e \in S : since # None => e.at >= since}
           /\ \A i \in DOMAIN r : i \in DOMAIN s /\ r[i] = s[i]
<1> DEFINE old == {i \in DOMAIN s : s[i].at < since}
           ok  == {e \in S : since # None => e.at >= since}
           r   == Fresh(s, since)
<1>1. /\ s \in Seq(S) /\ Len(s) \in Nat /\ DOMAIN s = 1..Len(s) /\ Range(s) = S
      /\ \A i \in DOMAIN s : s[i] \in S
      /\ \A i, j \in DOMAIN s : i < j => <<s[i], s[j]>> \in AfterIn(S)
  <2>1. s \in Seq(S)  BY DEF Lists
  <2>. QED  BY <2>1, LenProperties, ElementOfSeq DEF Lists
<1>2. \A i, j \in DOMAIN s : i < j => s[i].at >= s[j].at
  <2>. SUFFICES ASSUME NEW i \in DOMAIN s, NEW j \in DOMAIN s, i < j PROVE s[i].at >= s[j].at  OBVIOUS
  <2>1. After(s[i], s[j])  BY <1>1 DEF AfterIn
  <2>2. s[i] \in S /\ s[j] \in S  BY <1>1
  <2>. QED  BY <2>1, <2>2 DEF After, Timed
<1>3. \A i \in DOMAIN s : s[i].at \in Int  BY <1>1 DEF Timed
<1>4. CASE since = None \/ old = {}
  <2>1. r = s  BY <1>4 DEF Fresh
  <2>2. \A e \in S : \E i \in DOMAIN s : e = s[i]  BY <1>1 DEF Range
  <2>3. ok = S
    <3>1. ASSUME NEW e \in S, since # None PROVE e.at >= since
      <4>1. PICK i \in DOMAIN s : e = s[i]  BY <2>2
      <4>2. ~(s[i].at < since)  BY <1>4, <3>1
      <4>. QED  BY <1>3, <3>1, <4>1, <4>2
    <3>. QED  BY <3>1
  <2>. QED  BY <1>1, <2>1, <2>3
<1>5. CASE since # None /\ old # {}
  <2> DEFINE m == Min(old)
  <2>1. old \in SUBSET Nat  BY <1>1
  <2>2. m \in old /\ \A n \in old : m <= n  BY <1>5, <2>1, MinOf
  <2>3. m \in 1..Len(s) /\ s[m].at < since  BY <1>1, <2>2
  <2>4. r = SubSeq(s, 1, m - 1)  BY <1>5 DEF Fresh
  <2> HIDE DEF m, r
  <2>5. /\ r \in Seq(S) /\ Len(r) = (IF 1 <= m - 1 THEN m - 1 - 1 + 1 ELSE 0)
        /\ \A i \in 1..(m - 1 - 1 + 1) : r[i] = s[1 + i - 1]
    <3>1. \A i \in 1..(m - 1) : s[i] \in S  BY <1>1, <2>3
    <3>. QED  BY <2>3, <2>4, <3>1, SubSeqProperties
  <2>6. Len(r) = m - 1  BY <2>3, <2>5
  <2>7. DOMAIN r = 1..(m - 1)  BY <2>5, <2>6, LenProperties
  <2>8. \A i \in 1..(m - 1) : i \in DOMAIN s /\ r[i] = s[i]  BY <1>1, <2>3, <2>5
  <2>9. ASSUME NEW i \in DOMAIN s PROVE i \in 1..(m - 1) <=> s[i].at >= since
    <3>1. CASE i \in 1..(m - 1)
      <4>1. i \notin old  BY <1>1, <2>2, <2>3, <3>1
      <4>2. ~(s[i].at < since)  BY <4>1
      <4>. QED  BY <1>3, <1>5, <3>1, <4>2
    <3>2. CASE i \notin 1..(m - 1)
      <4>1. i = m \/ m < i  BY <1>1, <2>3, <3>2
      <4>2. s[m].at >= s[i].at  BY <1>1, <1>2, <1>3, <2>3, <4>1
      <4>. QED  BY <1>1, <1>3, <1>5, <2>3, <3>2, <4>2
    <3>. QED  BY <3>1, <3>2
  <2>10. Range(r) = ok
    <3>1. \A e \in Range(r) : e \in ok  BY <1>1, <1>5, <2>7, <2>8, <2>9 DEF Range
    <3>2. ASSUME NEW e \in ok PROVE e \in Range(r)
      <4>1. PICK i \in DOMAIN s : e = s[i]  BY <1>1 DEF Range
      <4>2. i \in DOMAIN r /\ r[i] = e  BY <1>5, <2>7, <2>8, <2>9, <4>1
      <4>. QED  BY <4>2 DEF Range
    <3>. QED  BY <3>1, <3>2
  <2>. QED  BY <2>5, <2>7, <2>8, <2>10 DEF r
<1>. QED  BY <1>4, <1>5

\* A scan of a prefix finds its matching events.
LEMMA ScanIs ==
    ASSUME NEW evt, Timed(evt), NEW p, Under(evt, p) \subseteq evt, NEW f, Bounded(f)
    PROVE  /\ Holds(Scan(evt, p, f), {e \in Under(evt, p) : Matches(e, f)})
           /\ \A i, j \in DOMAIN Scan(evt, p, f) : i < j => After(Scan(evt, p, f)[i], Scan(evt, p, f)[j])
<1> DEFINE S == Seek(Under(evt, p), f.until)
           s == InOrder(S, After)
           r == Fresh(s, f.since)
           at == {i \in DOMAIN r : Matches(r[i], f)}
           q == Scan(evt, p, f)
           found == {e \in Under(evt, p) : Matches(e, f)}
<1>1. S \subseteq Under(evt, p)  BY DEF Seek
<1>2. Timed(S)
  <2>1. S \in SUBSET evt  BY <1>1
  <2>2. IsFiniteSet(S)  BY <2>1, FS_Subset DEF Timed
  <2>. HIDE DEF S
  <2>. QED  BY <2>1, <2>2 DEF Timed
<1>3. Lists(s, S, AfterIn(S))
  <2>. HIDE DEF S
  <2>. QED  BY <1>2, AfterLists
<1>4. found \subseteq S
  <2>1. CASE f.until = None  BY <2>1 DEF Seek
  <2>2. CASE f.until # None
    <3>1. \A e \in found : e \in evt /\ e.at <= f.until  BY <2>2 DEF Matches
    <3>2. \A e \in found : Unsigned(e.at) = e.at  BY <3>1 DEF Timed
    <3>. QED  BY <2>2, <3>1, <3>2 DEF Seek, Bounded
  <2>. QED  BY <2>1, <2>2
<1>5. /\ r \in Seq(S) /\ Range(r) = {e \in S : f.since # None => e.at >= f.since}
      /\ \A i \in DOMAIN r : i \in DOMAIN s /\ r[i] = s[i]
  <2>. HIDE DEF S, s
  <2>. QED  BY <1>2, <1>3, FreshIs DEF Bounded
<1>6. q = Picked(r, at)  BY DEF Scan
<1> HIDE DEF r, q
<1>7. /\ q \in Seq(S) /\ Range(q) = {r[i] : i \in at}
      /\ \A m, n \in DOMAIN q : m < n => \E i, j \in at : i < j /\ q[m] = r[i] /\ q[n] = r[j]
  <2>1. at \in SUBSET DOMAIN r  OBVIOUS
  <2>. HIDE DEF at, S
  <2>. QED  BY <1>5, <1>6, <2>1, PickedIs
<1>8. Range(q) = found
  <2>1. \A e \in Range(q) : e \in found
    <3>1. \A i \in DOMAIN r : r[i] \in S  BY <1>5 DEF Range
    <3>. QED  BY <1>1, <1>7, <3>1
  <2>2. ASSUME NEW e \in found PROVE e \in Range(q)
    <3>1. e \in Range(r)  BY <1>4, <1>5 DEF Matches
    <3>2. PICK i \in DOMAIN r : e = r[i]  BY <3>1 DEF Range
    <3>. QED  BY <1>7, <3>2
  <2>. QED  BY <2>1, <2>2
<1>9. ASSUME NEW m \in DOMAIN q, NEW n \in DOMAIN q, m < n PROVE After(q[m], q[n])
  <2>1. PICK i \in at, j \in at : i < j /\ q[m] = r[i] /\ q[n] = r[j]  BY <1>7, <1>9
  <2>2. i \in DOMAIN s /\ j \in DOMAIN s /\ q[m] = s[i] /\ q[n] = s[j]  BY <1>5, <2>1
  <2>3. <<s[i], s[j]>> \in AfterIn(S)
    <3>. HIDE DEF s, S
    <3>. QED  BY <1>3, <2>1, <2>2 DEF Lists
  <2>. QED  BY <2>2, <2>3 DEF AfterIn
<1>10. \A i \in DOMAIN q : q[i] \in S /\ q[i].id \in Int /\ q[i].at \in Nat /\ Unsigned(q[i].at) = q[i].at
  <2>1. \A i \in DOMAIN q : q[i] \in S  BY <1>4, <1>8 DEF Range
  <2>. HIDE DEF S
  <2>. QED  BY <1>2, <2>1 DEF Timed
<1>11. \A m, n \in DOMAIN q : m < n => q[m].at >= q[n].at /\ q[m] # q[n]
  <2>. SUFFICES ASSUME NEW m \in DOMAIN q, NEW n \in DOMAIN q, m < n PROVE q[m].at >= q[n].at /\ q[m] # q[n]  OBVIOUS
  <2>1. After(q[m], q[n])  BY <1>9
  <2>. HIDE DEF S
  <2>. QED  BY <1>10, <2>1 DEF After
<1>12. q \in Seq(found)
  <2>1. Len(q) \in Nat /\ q \in [1..Len(q) -> S] /\ DOMAIN q = 1..Len(q)  BY <1>7, LenProperties
  <2>2. \A i \in DOMAIN q : q[i] \in found  BY <1>8 DEF Range
  <2>3. q \in [1..Len(q) -> found]  BY <2>1, <2>2
  <2>. QED  BY <2>1, <2>3, SeqDef
<1>13. \A i, j \in DOMAIN q : q[i] = q[j] => i = j
  <2>1. DOMAIN q \in SUBSET Nat  BY <1>7, LenProperties
  <2>. QED  BY <1>11, <2>1
<1>. QED
  <2>. HIDE DEF found
  <2>1. Holds(q, found)  BY <1>8, <1>11, <1>12, <1>13 DEF Holds
  <2>. QED  BY <1>9, <2>1 DEF found, q

-----------------------------------------------------------------------------
(* Several prefixes *)

\* Comparing times, then positions, is transitive.
LEMMA LexTrans ==
    ASSUME NEW a \in Int, NEW b \in Int, NEW c \in Int,
           NEW a1 \in Int, NEW b1 \in Int, NEW c1 \in Int, NEW a2 \in Int, NEW b2 \in Int, NEW c2 \in Int,
           a > b \/ (a = b /\ (a1 < b1 \/ (a1 = b1 /\ a2 < b2))),
           b > c \/ (b = c /\ (b1 < c1 \/ (b1 = c1 /\ b2 < c2)))
    PROVE  a > c \/ (a = c /\ (a1 < c1 \/ (a1 = c1 /\ a2 < c2)))
OBVIOUS

\* Merging scans keeps each of their events once, newest first.
LEMMA MergedIs ==
    ASSUME NEW evt, Timed(evt), NEW ss \in Seq(Seq(evt))
    PROVE  Holds(Merged(ss), UNION {Range(ss[i]) : i \in DOMAIN ss})
<1> DEFINE all  == UNION {{i} \X DOMAIN ss[i] : i \in DOMAIN ss}
           At(x) == ss[x[1]][x[2]]
           Earlier(x, y) == x[1] < y[1] \/ (x[1] = y[1] /\ x[2] < y[2])
           once == {x \in all : \A y \in all : Earlier(y, x) => At(y) # At(x)}
           Ahead(x, y) == At(x).at > At(y).at \/ (At(x).at = At(y).at /\ Earlier(x, y))
           R == {p \in once \X once : Ahead(p[1], p[2])}
           o == InOrder(once, Ahead)
           q == Merged(ss)
           found == UNION {Range(ss[i]) : i \in DOMAIN ss}
<1>1. /\ Len(ss) \in Nat /\ DOMAIN ss = 1..Len(ss)
      /\ \A i \in DOMAIN ss : ss[i] \in Seq(evt) /\ Len(ss[i]) \in Nat /\ DOMAIN ss[i] = 1..Len(ss[i])
      /\ \A i \in DOMAIN ss : \A j \in DOMAIN ss[i] : ss[i][j] \in evt
  <2>1. Len(ss) \in Nat /\ DOMAIN ss = 1..Len(ss) /\ \A i \in DOMAIN ss : ss[i] \in Seq(evt)
    BY LenProperties, ElementOfSeq
  <2>2. ASSUME NEW i \in DOMAIN ss
        PROVE  Len(ss[i]) \in Nat /\ DOMAIN ss[i] = 1..Len(ss[i]) /\ \A j \in DOMAIN ss[i] : ss[i][j] \in evt
    <3>1. ss[i] \in Seq(evt)  BY <2>1
    <3>. QED  BY <3>1, LenProperties, ElementOfSeq
  <2>. QED  BY <2>1, <2>2
<1>2. \A x \in all : x[1] \in DOMAIN ss /\ x[2] \in DOMAIN ss[x[1]] /\ x = <<x[1], x[2]>>
                     /\ x[1] \in Nat /\ x[2] \in Nat /\ At(x) \in evt
  BY <1>1
<1>3. \A i \in DOMAIN ss : \A j \in DOMAIN ss[i] : <<i, j>> \in all  OBVIOUS
<1>4. IsFiniteSet(all)
  <2> DEFINE g == [i \in DOMAIN ss |-> {i} \X DOMAIN ss[i]]
             G == {{i} \X DOMAIN ss[i] : i \in DOMAIN ss}
  <2>1. g \in Surjection(DOMAIN ss, G)  BY DEF Surjection
  <2>2. IsFiniteSet(DOMAIN ss)  BY <1>1, FS_Interval
  <2>3. IsFiniteSet(G)  BY <2>1, <2>2, FS_Surjection
  <2>4. ASSUME NEW T \in G PROVE IsFiniteSet(T)
    <3>1. PICK i \in DOMAIN ss : T = {i} \X DOMAIN ss[i]  OBVIOUS
    <3>2. IsFiniteSet({i})  BY FS_Singleton
    <3>3. IsFiniteSet(DOMAIN ss[i])
      <4>1. Len(ss[i]) \in Int /\ DOMAIN ss[i] = 1..Len(ss[i])  BY <1>1
      <4>. QED  BY <4>1, FS_Interval
    <3>. QED  BY <3>1, <3>2, <3>3, FS_Product
  <2>. HIDE DEF g, G
  <2>5. IsFiniteSet(UNION G)  BY <2>3, <2>4, FS_UNION
  <2>. QED  BY <2>5 DEF G
<1>5. once \in SUBSET all /\ IsFiniteSet(once)
  <2>1. once \in SUBSET all  OBVIOUS
  <2>. HIDE DEF once, all
  <2>. QED  BY <1>4, <2>1, FS_Subset
<1>6. \A x, y \in once : <<x, y>> \in R <=> Ahead(x, y)  OBVIOUS
<1>7. \A x \in once : At(x).at \in Int /\ x[1] \in Int /\ x[2] \in Int
  <2>1. \A x \in once : x \in all  OBVIOUS
  <2>2. \A x \in all : At(x).at \in Int  BY <1>2 DEF Timed
  <2>. QED  BY <1>2, <2>1, <2>2
<1>b. \A x \in once : x = <<x[1], x[2]>>
  <2>1. \A x \in once : x \in all  OBVIOUS
  <2>. QED  BY <1>2, <2>1
<1>8. Orders(R, once)
  <2>. HIDE DEF R, once
  <2>1. \A x \in once : <<x, x>> \notin R  BY <1>6, <1>7
  <2>2. ASSUME NEW x \in once, NEW y \in once, NEW z \in once, <<x, y>> \in R, <<y, z>> \in R PROVE <<x, z>> \in R
    <3>1. Ahead(x, y) /\ Ahead(y, z)
      <4>. HIDE DEF Ahead
      <4>. QED  BY <1>6, <2>2
    <3>2. /\ At(x).at \in Int /\ x[1] \in Int /\ x[2] \in Int
          /\ At(y).at \in Int /\ y[1] \in Int /\ y[2] \in Int
          /\ At(z).at \in Int /\ z[1] \in Int /\ z[2] \in Int
      BY <1>7
    <3>3. Ahead(x, z)
      <4>. HIDE DEF At
      <4>. QED  BY <3>1, <3>2, LexTrans
    <3>. HIDE DEF Ahead
    <3>. QED  BY <1>6, <3>3
  <2>3. ASSUME NEW x \in once, NEW y \in once, x # y PROVE <<x, y>> \in R \/ <<y, x>> \in R
    <3>1. x[1] # y[1] \/ x[2] # y[2]  BY <1>b, <2>3
    <3>2. /\ At(x).at \in Int /\ x[1] \in Int /\ x[2] \in Int
          /\ At(y).at \in Int /\ y[1] \in Int /\ y[2] \in Int
      BY <1>7
    <3>3. Ahead(x, y) \/ Ahead(y, x)  BY <3>1, <3>2
    <3>. HIDE DEF Ahead
    <3>. QED  BY <1>6, <3>3
  <2>. QED  BY <2>1, <2>2, <2>3 DEF Orders
<1>9. \A x \in once : Below(R, once, x) = {y \in once : Ahead(y, x)}
  <2>. HIDE DEF once, Ahead
  <2>. QED  BY DEF Below
<1>10. Lists(o, once, R)
  <2> DEFINE n == Cardinality(once)
  <2>1. \A i \in 1..n : \E x \in once : Cardinality({y \in once : Ahead(y, x)}) = i - 1
    <3>. SUFFICES ASSUME NEW i \in 1..n
                  PROVE  \E x \in once : Cardinality({y \in once : Ahead(y, x)}) = i - 1
      OBVIOUS
    <3>. HIDE DEF R, once, Ahead
    <3>1. PICK x \in once : Cardinality(Below(R, once, x)) = i - 1  BY <1>5, <1>8, Ranked
    <3>. QED  BY <1>9, <3>1
  <2>2. o \in [1..n -> once]
    <3>. HIDE DEF once, Ahead
    <3>. QED  BY <2>1 DEF InOrder
  <2>3. ASSUME NEW i \in 1..n PROVE Cardinality(Below(R, once, o[i])) = i - 1
    <3>. HIDE DEF once, Ahead
    <3>1. o[i] = CHOOSE x \in once : Cardinality({y \in once : Ahead(y, x)}) = i - 1  BY DEF InOrder
    <3>2. o[i] \in once /\ Cardinality({y \in once : Ahead(y, o[i])}) = i - 1  BY <2>1, <3>1
    <3>. QED  BY <1>9, <3>2
  <2>. HIDE DEF R, o, once
  <2>. QED  BY <1>5, <1>8, <2>2, <2>3, Ranked
<1>11. q = [n \in DOMAIN o |-> At(o[n])]  BY DEF Merged
<1>12. /\ Cardinality(once) \in Nat /\ DOMAIN o = 1..Cardinality(once) /\ Range(o) = once
       /\ \A n \in DOMAIN o : o[n] \in once
       /\ \A m, n \in DOMAIN o : m < n => <<o[m], o[n]>> \in R
       /\ \A m, n \in DOMAIN o : o[m] = o[n] => m = n
  <2>. HIDE DEF o, once, R
  <2>. QED  BY <1>5, <1>10, FS_CardinalityType DEF Lists
<1> HIDE DEF o, q, R
<1>13. ASSUME NEW x \in once, NEW y \in once, At(x) = At(y) PROVE x = y
  <2>1. x \in all /\ y \in all  OBVIOUS
  <2>2. ~Earlier(x, y) /\ ~Earlier(y, x)
    <3>. HIDE DEF all, At, Earlier
    <3>. QED  BY <1>13, <2>1
  <2>3. x[1] = y[1] /\ x[2] = y[2]
    <3>. HIDE DEF once
    <3>. QED  BY <1>7, <2>2
  <2>4. x = <<x[1], x[2]>> /\ y = <<y[1], y[2]>>
    <3>. HIDE DEF once
    <3>. QED  BY <1>b
  <2>. QED  BY <2>3, <2>4
<1>14. ASSUME NEW x \in all PROVE \E y \in once : At(y) = At(x)
  \* Of the positions of the same event, the first scan's first one.
  <2> DEFINE same == {y \in all : At(y) = At(x)}
             I == {y[1] : y \in same}
  <2> DEFINE i == Min(I)
  <2> DEFINE row == {z \in same : z[1] = i}
  <2> DEFINE J == {y[2] : y \in row}
  <2> DEFINE j == Min(J)
  <2>0. x \in same  OBVIOUS
  <2>1. \A y \in same : y \in all /\ y[1] \in Nat /\ y[2] \in Nat /\ y = <<y[1], y[2]>> /\ At(y) = At(x)
    <3>. HIDE DEF all
    <3>. QED  BY <1>2
  <2> HIDE DEF same, At
  <2>2. i \in I /\ \A n \in I : i <= n
    <3>1. I \in SUBSET Nat /\ I # {}  BY <2>0, <2>1
    <3>. HIDE DEF I
    <3>. QED  BY <3>1, MinOf
  <2> HIDE DEF i
  <2>3. j \in J /\ \A n \in J : j <= n
    <3>1. J \in SUBSET Nat  BY <2>1
    <3>2. J # {}  BY <2>2
    <3>. HIDE DEF J
    <3>. QED  BY <3>1, <3>2, MinOf
  <2>4. PICK y \in same : y[1] = i /\ y[2] = j
    <3>. HIDE DEF j
    <3>. QED  BY <2>3
  <2>5. \A z \in same : ~Earlier(z, y)
    <3>. SUFFICES ASSUME NEW z \in same PROVE ~Earlier(z, y)  OBVIOUS
    <3>1. z[1] \in I /\ i <= z[1]  BY <2>2
    <3>2. z[1] = i => z[2] \in J /\ j <= z[2]  BY <2>3
    <3>3. z[1] \in Nat /\ z[2] \in Nat /\ y[1] \in Nat /\ y[2] \in Nat  BY <2>1
    <3>. HIDE DEF I, J, j
    <3>. QED  BY <2>4, <3>1, <3>2, <3>3
  <2>6. y \in all /\ At(y) = At(x)  BY <2>1
  <2>7. \A z \in all : Earlier(z, y) => At(z) # At(y)
    <3>. HIDE DEF all, Earlier
    <3>. QED  BY <2>5, <2>6 DEF same
  <2>. QED
    <3>. HIDE DEF all, Earlier
    <3>. QED  BY <2>6, <2>7
<1>15. \A n \in DOMAIN q : q[n] = At(o[n]) /\ n \in DOMAIN o  BY <1>11
<1>16. DOMAIN q = 1..Cardinality(once)
  <2>. HIDE DEF once, At
  <2>. QED  BY <1>11, <1>12
<1>17. Range(q) = found
  <2>1. ASSUME NEW n \in DOMAIN q PROVE q[n] \in found
    <3>1. o[n] \in once /\ q[n] = At(o[n])  BY <1>12, <1>15
    <3>2. o[n] \in all  BY <1>5, <3>1
    <3>3. o[n][1] \in DOMAIN ss /\ o[n][2] \in DOMAIN ss[o[n][1]]  BY <1>2, <3>2
    <3>4. q[n] = ss[o[n][1]][o[n][2]]  BY <3>1
    <3>. QED  BY <3>3, <3>4 DEF Range
  <2>2. ASSUME NEW e \in found PROVE e \in Range(q)
    <3>1. PICK i \in DOMAIN ss : e \in Range(ss[i])  OBVIOUS
    <3>a. PICK j \in DOMAIN ss[i] : e = ss[i][j]  BY <3>1 DEF Range
    <3>2. <<i, j>> \in all /\ At(<<i, j>>) = e  BY <3>a
    <3>3. PICK y \in once : At(y) = e
      <4>. HIDE DEF all, once, At
      <4>. QED  BY <1>14, <3>2
    <3>. HIDE DEF once, At
    <3>4. PICK n \in DOMAIN o : o[n] = y  BY <1>12 DEF Range
    <3>5. n \in DOMAIN q /\ q[n] = e  BY <1>11, <3>3, <3>4
    <3>. QED  BY <3>5 DEF Range
  <2>. HIDE DEF found
  <2>. QED  BY <2>1, <2>2 DEF Range
<1>18. q \in Seq(found)
  <2>1. \A n \in DOMAIN q : q[n] \in found  BY <1>17 DEF Range
  <2>2. q \in [1..Cardinality(once) -> found]
    <3>. HIDE DEF once, found, At
    <3>. QED  BY <1>11, <1>16, <2>1
  <2>. HIDE DEF once, found
  <2>. QED  BY <1>12, <2>2, SeqDef
<1>19. ASSUME NEW m \in DOMAIN q, NEW n \in DOMAIN q, q[m] = q[n] PROVE m = n
  <2>1. o[m] \in once /\ o[n] \in once /\ At(o[m]) = At(o[n]) /\ m \in DOMAIN o /\ n \in DOMAIN o
    <3>. HIDE DEF once, At
    <3>. QED  BY <1>12, <1>15, <1>19
  <2>. HIDE DEF once, At
  <2>. QED  BY <1>12, <1>13, <2>1
<1>20. ASSUME NEW m \in DOMAIN q, NEW n \in DOMAIN q, m < n PROVE q[m].at >= q[n].at
  <2>1. m \in DOMAIN o /\ n \in DOMAIN o /\ o[m] \in once /\ o[n] \in once /\ q[m] = At(o[m]) /\ q[n] = At(o[n])
    <3>. HIDE DEF once, At
    <3>. QED  BY <1>12, <1>15
  <2>2. Ahead(o[m], o[n])
    <3>. HIDE DEF once, Ahead
    <3>. QED  BY <1>6, <1>12, <1>20, <2>1
  <2>3. At(o[m]).at \in Int /\ At(o[n]).at \in Int
    <3>. HIDE DEF once, At
    <3>. QED  BY <1>7, <2>1
  <2>. HIDE DEF At, Earlier, once
  <2>. QED  BY <2>1, <2>2, <2>3
<1>. QED
  <2>. HIDE DEF found
  <2>1. Holds(q, found)  BY <1>17, <1>18, <1>19, <1>20 DEF Holds
  <2>. QED  BY <2>1 DEF q, found

-----------------------------------------------------------------------------
(* Whole queries *)

\* What a program asks with: sequences of values, an id only once.
Proper(f) ==
    /\ Bounded(f)
    /\ f.ids \in Seq(Range(f.ids)) /\ IsInjective(f.ids)
    /\ f.pubkeys \in Seq(Range(f.pubkeys)) /\ f.kinds \in Seq(Range(f.kinds))
    /\ \A n \in DOMAIN f.tags : f.tags[n] \in Seq(Range(f.tags[n]))

Matching(evt, f) == {e \in evt : Matches(e, f)}

LEMMA LimitIs ==
    ASSUME NEW f, Bounded(f)
    PROVE  Limit(f) \in Nat \ {0}
BY StoreAssumption DEF Limit, Bounded

\* A sequence that lists a set without repetition is as long as the set is big.
LEMMA CountIs ==
    ASSUME NEW S, NEW s \in Seq(S), Range(s) = S, \A i, j \in DOMAIN s : s[i] = s[j] => i = j
    PROVE  IsFiniteSet(S) /\ Cardinality(S) = Len(s)
<1>1. Len(s) \in Nat /\ DOMAIN s = 1..Len(s) /\ s \in [1..Len(s) -> S]  BY LenProperties
<1>2. s \in Injection(1..Len(s), S)  BY <1>1 DEF Injection, IsInjective
<1>3. s \in Surjection(1..Len(s), S)  BY <1>1 DEF Surjection, Range
<1>4. IsFiniteSet(1..Len(s)) /\ Cardinality(1..Len(s)) = IF 1 > Len(s) THEN 0 ELSE Len(s) - 1 + 1
  BY <1>1, FS_Interval
<1>5. Cardinality(1..Len(s)) = Len(s)  BY <1>1, <1>4
<1>. QED  BY <1>2, <1>3, <1>4, <1>5, FS_Surjection

\* All matching events newest first, up to the limit, are the newest ones.
LEMMA NewestIs ==
    ASSUME NEW evt, Timed(evt), NEW f, Bounded(f), NEW r, Holds(r, Matching(evt, f))
    PROVE  Newest(evt, f, Cut(r, Limit(f))) /\ Cut(r, Limit(f)) \in Seq(evt)
<1> DEFINE found == Matching(evt, f)
           n == Limit(f)
           q == Cut(r, n)
<1>1. n \in Nat  BY LimitIs
<1>2. /\ r \in Seq(found) /\ Len(r) \in Nat /\ DOMAIN r = 1..Len(r) /\ Range(r) = found
      /\ \A i, j \in DOMAIN r : r[i] = r[j] => i = j
      /\ \A i, j \in DOMAIN r : i < j => r[i].at >= r[j].at
  <2>1. r \in Seq(found)  BY DEF Holds
  <2>. QED  BY <2>1, LenProperties DEF Holds
<1>3. /\ q \in Seq(found) /\ Len(q) = (IF Len(r) < n THEN Len(r) ELSE n)
      /\ \A i \in DOMAIN q : i \in DOMAIN r /\ q[i] = r[i]
  <2>. HIDE DEF found, n
  <2>. QED  BY <1>1, <1>2, CutIs
<1>4. found \in SUBSET evt /\ IsFiniteSet(found) /\ \A e \in found : e.at \in Int
  <2>1. found \in SUBSET evt  BY DEF Matching
  <2>2. IsFiniteSet(evt)  BY DEF Timed
  <2>. HIDE DEF found
  <2>. QED  BY <2>1, <2>2, FS_Subset DEF Timed
<1>5. Cardinality(found) = Len(r)
  <2>. HIDE DEF found
  <2>. QED  BY <1>2, CountIs
<1> HIDE DEF q, n, found
<1>6. DOMAIN q = 1..Len(q) /\ Len(q) \in Nat /\ Range(q) \subseteq found
  <2>1. DOMAIN q = 1..Len(q) /\ Len(q) \in Nat  BY <1>3, LenProperties
  <2>2. \A i \in DOMAIN q : q[i] \in found  BY <1>2, <1>3 DEF Range
  <2>. QED  BY <2>1, <2>2 DEF Range
<1>7. IsInjective(q)  BY <1>2, <1>3 DEF IsInjective
<1>8. \A i, j \in DOMAIN q : i < j => q[i].at >= q[j].at  BY <1>2, <1>3
<1>9. ASSUME NEW e \in found \ Range(q), NEW i \in DOMAIN q PROVE q[i].at >= e.at
  <2>1. PICK j \in DOMAIN r : e = r[j]  BY <1>2 DEF Range
  <2>2. j \notin DOMAIN q  BY <1>3, <1>9, <2>1 DEF Range
  <2>3. i < j  BY <1>2, <1>6, <2>2
  <2>. QED  BY <1>2, <1>3, <2>1, <2>3
<1>10. Len(q) = IF Cardinality(found) < n THEN Cardinality(found) ELSE n  BY <1>3, <1>5
<1>11. q \in Seq(evt)
  <2>1. \A i \in 1..Len(q) : q[i] \in evt  BY <1>4, <1>6 DEF Range
  <2>2. q \in [1..Len(q) -> evt]
    <3>1. q \in [1..Len(q) -> found]  BY <1>3, LenProperties
    <3>. QED  BY <2>1, <3>1
  <2>. QED  BY <1>6, <2>2, SeqDef
<1>. QED  BY <1>6, <1>7, <1>8, <1>9, <1>10, <1>11 DEF Newest, found, n, q, Matching

\* So are those that the scans of several prefixes or of one yield, if every
\* matching event is under one of them.
LEMMA CollectIs ==
    ASSUME NEW evt, Timed(evt), NEW f, Bounded(f), NEW T, NEW ps \in Seq(T),
           \A i \in DOMAIN ps : Under(evt, ps[i]) \subseteq evt,
           \A e \in Matching(evt, f) : \E i \in DOMAIN ps : e \in Under(evt, ps[i])
    PROVE  Newest(evt, f, Collect(evt, ps, f)) /\ Collect(evt, ps, f) \in Seq(evt)
<1> DEFINE found == Matching(evt, f)
           ss == [i \in DOMAIN ps |-> Scan(evt, ps[i], f)]
           part(i) == {e \in Under(evt, ps[i]) : Matches(e, f)}
<1>1. Len(ps) \in Nat /\ DOMAIN ps = 1..Len(ps)  BY LenProperties
<1>2. \A i \in DOMAIN ps : Holds(Scan(evt, ps[i], f), part(i))
  <2>. HIDE DEF part
  <2>. QED  BY ScanIs DEF part
<1>3. \A e : e \in found <=> \E i \in DOMAIN ps : e \in part(i)  BY DEF Matching
<1>4. CASE Len(ps) = 1
  <2>1. part(1) = found
    <3>1. DOMAIN ps = {1}  BY <1>1, <1>4
    <3>. HIDE DEF part, found
    <3>. QED  BY <1>3, <3>1
  <2>2. Holds(Scan(evt, ps[1], f), found)
    <3>1. 1 \in DOMAIN ps  BY <1>1, <1>4
    <3>2. Holds(Scan(evt, ps[1], f), part(1))  BY <1>2, <3>1
    <3>. HIDE DEF part, found
    <3>. QED  BY <2>1, <3>2
  <2>. QED  BY <1>4, <2>2, NewestIs DEF Collect
<1>5. CASE Len(ps) # 1
  <2>1. \A i \in DOMAIN ps : Scan(evt, ps[i], f) \in Seq(evt) /\ Range(Scan(evt, ps[i], f)) = part(i)
    <3>. SUFFICES ASSUME NEW i \in DOMAIN ps
                  PROVE  Scan(evt, ps[i], f) \in Seq(evt) /\ Range(Scan(evt, ps[i], f)) = part(i)
      OBVIOUS
    <3>1. Holds(Scan(evt, ps[i], f), part(i))  BY <1>2
    <3>2. part(i) \in SUBSET evt  OBVIOUS
    <3>. HIDE DEF part
    <3>3. Scan(evt, ps[i], f) \in Seq(part(i)) /\ Range(Scan(evt, ps[i], f)) = part(i)  BY <3>1 DEF Holds
    <3>4. \A k \in 1..Len(Scan(evt, ps[i], f)) : Scan(evt, ps[i], f)[k] \in evt  BY <3>2, <3>3, ElementOfSeq
    <3>5. Len(Scan(evt, ps[i], f)) \in Nat /\ Scan(evt, ps[i], f) \in [1..Len(Scan(evt, ps[i], f)) -> part(i)]
      BY <3>3, LenProperties
    <3>6. Scan(evt, ps[i], f) \in [1..Len(Scan(evt, ps[i], f)) -> evt]  BY <3>2, <3>5
    <3>7. Scan(evt, ps[i], f) \in Seq(evt)  BY <3>5, <3>6, SeqDef
    <3>. QED  BY <3>3, <3>7
  <2>2. ss \in Seq(Seq(evt))
    <3>1. ss \in [1..Len(ps) -> Seq(evt)]
      <4>. HIDE DEF part
      <4>. QED  BY <1>1, <2>1
    <3>. QED  BY <1>1, <3>1, SeqDef
  <2>3. Holds(Merged(ss), UNION {Range(ss[i]) : i \in DOMAIN ss})
    <3>. HIDE DEF ss
    <3>. QED  BY <2>2, MergedIs
  <2>4. UNION {Range(ss[i]) : i \in DOMAIN ss} = found
    <3>1. \A i \in DOMAIN ss : Range(ss[i]) = part(i) /\ i \in DOMAIN ps  BY <2>1
    <3>2. DOMAIN ss = DOMAIN ps  OBVIOUS
    <3>. HIDE DEF ss, part, found
    <3>. QED  BY <1>3, <3>1, <3>2
  <2>5. Collect(evt, ps, f) = Cut(Merged(ss), Limit(f))  BY <1>5 DEF Collect
  <2>6. Holds(Merged(ss), Matching(evt, f))
    <3>. HIDE DEF ss
    <3>. QED  BY <2>3, <2>4
  <2>. HIDE DEF ss
  <2>. QED  BY <2>5, <2>6, NewestIs
<1>. QED  BY <1>4, <1>5

\* The events with the ids of a filter, in its order.
LEMMA ByIDsIs ==
    ASSUME NEW evt, Timed(evt), NEW f, Proper(f), f.ids # <<>>
    PROVE  Named(evt, f, ByIDs(evt, f))
<1> DEFINE found == Matching(evt, f)
           Hits(i) == {e \in evt : e.id = f.ids[i] /\ Matches(e, f)}
           at == {i \in DOMAIN f.ids : Hits(i) # {}}
           o == InOrder(at, <)
           s == [n \in DOMAIN o |-> CHOOSE e \in Hits(o[n]) : TRUE]
           q == Cut(s, Limit(f))
<1>1. Len(f.ids) \in Nat /\ DOMAIN f.ids = 1..Len(f.ids)  BY LenProperties DEF Proper
<1>2. at \in SUBSET Nat /\ IsFiniteSet(at)
  <2>1. IsFiniteSet(1..Len(f.ids))  BY <1>1, FS_Interval
  <2>2. at \in SUBSET (1..Len(f.ids))  BY <1>1
  <2>. HIDE DEF at
  <2>. QED  BY <1>1, <2>1, <2>2, FS_Subset
<1>3. Lists(o, at, {p \in at \X at : p[1] < p[2]})
  <2>. HIDE DEF at
  <2>. QED  BY <1>2, IndexLists
<1>4. /\ Cardinality(at) \in Nat /\ DOMAIN o = 1..Cardinality(at) /\ Range(o) = at
      /\ \A n \in DOMAIN o : o[n] \in at
      /\ \A m, n \in DOMAIN o : o[m] = o[n] => m = n
  <2>. HIDE DEF o, at
  <2>. QED  BY <1>2, <1>3, FS_CardinalityType DEF Lists
<1> HIDE DEF o
<1>5. \A n \in DOMAIN o : s[n] \in Hits(o[n])
  <2>. SUFFICES ASSUME NEW n \in DOMAIN o PROVE s[n] \in Hits(o[n])  OBVIOUS
  <2>1. o[n] \in at  BY <1>4
  <2>2. Hits(o[n]) # {}  BY <2>1
  <2>. HIDE DEF Hits
  <2>. QED  BY <2>2
<1>6. \A n \in DOMAIN s : s[n] \in found /\ s[n].id = f.ids[o[n]] /\ n \in DOMAIN o
  <2>1. DOMAIN s = DOMAIN o  OBVIOUS
  <2>. HIDE DEF s
  <2>. QED  BY <1>5, <2>1 DEF Matching
<1>7. DOMAIN s = 1..Cardinality(at)
  <2>. HIDE DEF at
  <2>. QED  BY <1>4
<1> HIDE DEF s
<1>8. s \in Seq(found) /\ Len(s) \in Nat /\ DOMAIN s = 1..Len(s)
  <2>1. s \in [1..Cardinality(at) -> found]
    <3>. HIDE DEF at, found
    <3>1. s = [n \in DOMAIN o |-> s[n]]  BY DEF s
    <3>. QED  BY <1>6, <1>7, <3>1
  <2>2. s \in Seq(found)
    <3>. HIDE DEF at, found
    <3>. QED  BY <1>4, <2>1, SeqDef
  <2>. QED  BY <2>2, LenProperties
<1>9. \A m, n \in DOMAIN s : s[m] = s[n] => m = n
  <2>. SUFFICES ASSUME NEW m \in DOMAIN s, NEW n \in DOMAIN s, s[m] = s[n] PROVE m = n  OBVIOUS
  <2>1. f.ids[o[m]] = f.ids[o[n]] /\ m \in DOMAIN o /\ n \in DOMAIN o  BY <1>6
  <2>2. o[m] \in DOMAIN f.ids /\ o[n] \in DOMAIN f.ids  BY <1>4, <2>1
  <2>3. o[m] = o[n]  BY <2>1, <2>2 DEF Proper, IsInjective
  <2>. HIDE DEF at
  <2>. QED  BY <1>4, <2>1, <2>3
<1>10. Range(s) = found
  <2>1. ASSUME NEW e \in found PROVE e \in Range(s)
    <3>1. e \in evt /\ Matches(e, f)  BY DEF Matching
    <3>2. PICK i \in DOMAIN f.ids : e.id = f.ids[i]  BY <3>1 DEF Matches, Range
    <3>3. e \in Hits(i)  BY <3>1, <3>2
    <3>4. i \in at  BY <3>3
    <3>5. PICK n \in DOMAIN o : o[n] = i
      <4>. HIDE DEF at
      <4>. QED  BY <1>4, <3>4 DEF Range
    <3>6. n \in DOMAIN s
      <4>. HIDE DEF at
      <4>. QED  BY <1>4, <1>7, <3>5
    <3>7. s[n] \in evt /\ s[n].id = e.id  BY <1>6, <3>2, <3>5, <3>6 DEF Matching
    <3>8. s[n] = e  BY <3>1, <3>7 DEF Timed
    <3>. QED  BY <3>6, <3>8 DEF Range
  <2>2. \A e \in Range(s) : e \in found
    <3>. HIDE DEF found
    <3>. QED  BY <1>6 DEF Range
  <2>. HIDE DEF found
  <2>. QED  BY <2>1, <2>2
<1>11. Cardinality(found) = Len(s)
  <2>. HIDE DEF found
  <2>. QED  BY <1>8, <1>9, <1>10, CountIs
<1>12. Limit(f) \in Nat  BY LimitIs DEF Proper
<1>13. /\ q \in Seq(found) /\ Len(q) = (IF Len(s) < Limit(f) THEN Len(s) ELSE Limit(f))
       /\ \A i \in DOMAIN q : i \in DOMAIN s /\ q[i] = s[i]
  <2>. HIDE DEF found
  <2>. QED  BY <1>8, <1>12, CutIs
<1>14. q = ByIDs(evt, f)  BY DEF ByIDs, o, s
<1> HIDE DEF q
<1>15. Range(q) \subseteq found
  <2>. HIDE DEF found
  <2>. QED  BY <1>6, <1>13 DEF Range
<1>16. IsInjective(q)
  <2>. HIDE DEF found
  <2>. QED  BY <1>9, <1>13 DEF IsInjective
<1>17. Len(q) = IF Cardinality(found) < Limit(f) THEN Cardinality(found) ELSE Limit(f)
  <2>. HIDE DEF found
  <2>. QED  BY <1>11, <1>13
<1>. QED  BY <1>14, <1>15, <1>16, <1>17 DEF Named, Matching

\* What QueryEvents answers, whichever index it reads: a query for ids their
\* matching events, every other one the newest of the matching events, newest
\* first, up to the limit.
THEOREM QueryIs ==
    ASSUME NEW evt, Timed(evt), NEW f, Proper(f)
    PROVE  Right(evt, f) /\ (f.ids = <<>> => \A r \in QueryEvents(evt, f) : r \in Seq(evt))
<1> DEFINE good(r) == Newest(evt, f, r) /\ r \in Seq(evt)
<1>0. Bounded(f)  BY DEF Proper
<1>1. ASSUME NEW index \in {"author", "kind"}, NEW values, values \in Seq(Range(values)),
             \A e \in Matching(evt, f) : (IF index = "author" THEN e.pubkey ELSE e.kind) \in Range(values)
      PROVE  good(Collect(evt, KeyRanges(index, values), f))
  <2> DEFINE ps == KeyRanges(index, values)
  <2>1. Len(values) \in Nat /\ DOMAIN values = 1..Len(values)  BY <1>1, LenProperties
  <2>2. /\ DOMAIN ps = DOMAIN values
        /\ \A i \in DOMAIN ps : ps[i].index = index /\ ps[i].value = values[i]
    BY DEF KeyRanges
  <2> HIDE DEF ps
  <2>3. ps \in Seq(Range(ps))
    <3>1. ps \in [1..Len(values) -> Range(ps)]
      <4>1. ps = [i \in DOMAIN values |-> ps[i]]  BY DEF ps, KeyRanges
      <4>. QED  BY <2>1, <4>1 DEF Range
    <3>. QED  BY <2>1, <3>1, SeqDef
  <2>4. \A i \in DOMAIN ps :
           Under(evt, ps[i]) = {e \in evt : (IF index = "author" THEN e.pubkey ELSE e.kind) = values[i]}
    BY <2>2 DEF Under
  <2>5. \A e \in Matching(evt, f) : \E i \in DOMAIN ps : e \in Under(evt, ps[i])
    BY <1>1, <2>2, <2>4 DEF Matching, Range
  <2>. QED  BY <1>0, <2>3, <2>4, <2>5, CollectIs DEF ps
<1>2. good(Collect(evt, <<[index |-> "time"]>>, f))
  <2> DEFINE ps == <<[index |-> "time"]>>
  <2>1. ps \in Seq(Range(ps)) /\ DOMAIN ps = {1} /\ ps[1].index = "time"  BY DEF Range
  <2>2. Under(evt, ps[1]) = evt  BY DEF Under
  <2> HIDE DEF ps
  <2>3. \A i \in DOMAIN ps : Under(evt, ps[i]) = evt  BY <2>1, <2>2
  <2>. QED  BY <1>0, <2>1, <2>3, CollectIs DEF ps, Matching
<1>3. ASSUME f.kinds # <<>> PROVE good(Collect(evt, KeyRanges("kind", f.kinds), f))
  BY <1>1, <1>3 DEF Proper, Matching, Matches
<1>4. ASSUME f.pubkeys # <<>> PROVE good(Collect(evt, KeyRanges("author", f.pubkeys), f))
  BY <1>1, <1>4 DEF Proper, Matching, Matches
<1>5. ASSUME NEW n \in DOMAIN f.tags PROVE good(Collect(evt, TagRanges(n, f.tags[n]), f))
  <2> DEFINE values == f.tags[n]
             ps == TagRanges(n, values)
  <2>1. Len(values) \in Nat /\ DOMAIN values = 1..Len(values)  BY LenProperties DEF Proper
  <2>2. /\ DOMAIN ps = DOMAIN values
        /\ \A i \in DOMAIN ps : ps[i].index = "tag" /\ ps[i].name = n /\ ps[i].value = values[i]
    BY DEF TagRanges
  <2> HIDE DEF ps
  <2>3. ps \in Seq(Range(ps))
    <3>1. ps \in [1..Len(values) -> Range(ps)]
      <4>1. ps = [i \in DOMAIN values |-> ps[i]]  BY DEF ps, TagRanges
      <4>. QED  BY <2>1, <4>1 DEF Range
    <3>. QED  BY <2>1, <3>1, SeqDef
  <2>4. \A i \in DOMAIN ps : Under(evt, ps[i]) = {e \in evt : values[i] \in Values(e, n)}
    BY <2>2 DEF Under
  <2>5. \A e \in Matching(evt, f) : Values(e, n) \cap Range(values) # {}  BY DEF Matching, Matches
  <2>6. \A e \in Matching(evt, f) : \E i \in DOMAIN ps : e \in Under(evt, ps[i])
    BY <2>2, <2>4, <2>5 DEF Matching, Range
  <2>. QED  BY <1>0, <2>3, <2>4, <2>6, CollectIs DEF ps
<1>6. CASE f.ids # <<>>
  <2>1. Named(evt, f, ByIDs(evt, f))  BY <1>6, ByIDsIs
  <2>2. QueryEvents(evt, f) = {ByIDs(evt, f)}  BY <1>6 DEF QueryEvents
  <2>. QED  BY <1>6, <2>1, <2>2 DEF Right
<1>7. CASE f.ids = <<>>
  <2>1. ASSUME NEW r \in QueryEvents(evt, f) PROVE good(r)
    <3>1. good(ByScan(evt, f))
      <4>. HIDE DEF good
      <4>. QED  BY <1>2, <1>3, <1>4 DEF ByScan
    <3>2. \A x \in ByTags(evt, f) : good(x)
      <4>. HIDE DEF good
      <4>. QED  BY <1>5 DEF ByTags
    <3>3. good(Collect(evt, IF f.pubkeys # <<>> THEN KeyRanges("author", f.pubkeys)
                            ELSE IF f.kinds # <<>> THEN KeyRanges("kind", f.kinds)
                            ELSE <<[index |-> "time"]>>, f))
      <4>. HIDE DEF good
      <4>. QED  BY <1>2, <1>3, <1>4
    <3>. HIDE DEF good
    <3>. QED  BY <1>7, <3>1, <3>2, <3>3 DEF QueryEvents
  <2>. QED  BY <1>7, <2>1 DEF Right
<1>. QED  BY <1>6, <1>7

\* What a handler relies on: the answer holds matching events, newest first, and
\* all of them if the limit allows.
LEMMA AnswerIs ==
    ASSUME NEW evt, Timed(evt), NEW f, Proper(f), f.ids = <<>>, NEW r \in QueryEvents(evt, f)
    PROVE  /\ r \in Seq(evt) /\ Len(r) \in Nat /\ DOMAIN r = 1..Len(r)
           /\ \A i \in DOMAIN r : r[i] \in Matching(evt, f)
           /\ \A i, j \in DOMAIN r : r[i] = r[j] => i = j
           /\ \A i, j \in DOMAIN r : i < j => r[i].at >= r[j].at
           /\ Cardinality(Matching(evt, f)) <= Limit(f) => Range(r) = Matching(evt, f)
           /\ r = <<>> => Matching(evt, f) = {}
           /\ Len(r) <= Limit(f)
           /\ \A e \in Matching(evt, f) : e \in Range(r) \/ \A i \in DOMAIN r : r[i].at >= e.at
<1> DEFINE found == Matching(evt, f)
<1>1. r \in Seq(evt) /\ Newest(evt, f, r)  BY QueryIs DEF Right
<1>2. Len(r) \in Nat /\ DOMAIN r = 1..Len(r)  BY <1>1, LenProperties
<1>3. /\ Range(r) \subseteq found /\ IsInjective(r)
      /\ Len(r) = IF Cardinality(found) < Limit(f) THEN Cardinality(found) ELSE Limit(f)
      /\ \A i, j \in DOMAIN r : i < j => r[i].at >= r[j].at
      /\ \A e \in found \ Range(r), i \in DOMAIN r : r[i].at >= e.at
  BY <1>1 DEF Newest, Matching
<1>4. IsFiniteSet(found) /\ Cardinality(found) \in Nat
  <2>1. found \in SUBSET evt  BY DEF Matching
  <2>. HIDE DEF found
  <2>. QED  BY <2>1, FS_Subset, FS_CardinalityType DEF Timed
<1>5. Limit(f) \in Nat \ {0}  BY LimitIs DEF Proper
<1> HIDE DEF found
<1>6. \A i \in DOMAIN r : r[i] \in found  BY <1>3 DEF Range
<1>7. ASSUME Cardinality(found) <= Limit(f) PROVE Range(r) = found
  <2>1. Len(r) = Cardinality(found)  BY <1>3, <1>4, <1>5, <1>7
  <2>2. r \in [1..Len(r) -> evt]  BY <1>1, LenProperties
  <2>3. r \in [1..Len(r) -> found]  BY <1>2, <1>6, <2>2
  <2>4. r \in Injection(1..Len(r), found)  BY <1>2, <1>3, <2>3 DEF Injection, IsInjective
  <2>5. IsFiniteSet(1..Len(r)) /\ Cardinality(1..Len(r)) = IF 1 > Len(r) THEN 0 ELSE Len(r) - 1 + 1
    BY <1>2, FS_Interval
  <2>6. Cardinality(1..Len(r)) = Len(r)  BY <1>2, <2>5
  <2>7. r \in Surjection(1..Len(r), found)  BY <1>4, <2>1, <2>4, <2>6, FS_Injection
  <2>8. \A e \in found : \E i \in 1..Len(r) : r[i] = e  BY <2>7 DEF Surjection
  <2>. QED  BY <1>2, <1>3, <2>8 DEF Range
<1>8. ASSUME r = <<>> PROVE found = {}
  <2>1. Len(r) = 0  BY <1>8
  <2>2. Cardinality(found) = 0  BY <1>3, <1>4, <1>5, <2>1
  <2>. QED  BY <1>4, <2>2, FS_EmptySet
<1>9. Len(r) <= Limit(f)  BY <1>3, <1>4, <1>5
<1>10. \A i, j \in DOMAIN r : r[i] = r[j] => i = j  BY <1>3 DEF IsInjective
<1>11. \A e \in found : e \in Range(r) \/ \A i \in DOMAIN r : r[i].at >= e.at  BY <1>3
<1>. QED  BY <1>1, <1>2, <1>3, <1>6, <1>7, <1>8, <1>9, <1>10, <1>11 DEF found
=============================================================================
