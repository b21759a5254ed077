-------------------------- MODULE RepositoriesProofs --------------------------
(***************************************************************************)
(* Theorems of Repositories, for any connections, repositories and events. *)
(***************************************************************************)
EXTENDS Repositories, EventStoreProofs

-----------------------------------------------------------------------------
(* The queries of the handlers *)

\* A query by kind and one tag.
UpTo(k, n, v, m) == [Tagged(OfKind(k), n, v) EXCEPT !.limit = m]

LEMMA TaggedIs ==
    ASSUME NEW k, NEW n, NEW v, NEW m \in Int
    PROVE  /\ Proper(UpTo(k, n, v, m)) /\ UpTo(k, n, v, m).ids = <<>> /\ UpTo(k, n, v, m).limit = m
           /\ UpTo(k, n, v, m).until = None /\ UpTo(k, n, v, m).since = None
           /\ UpTo(k, n, v, m).kinds = <<k>>
           /\ DOMAIN UpTo(k, n, v, m).tags = {n} /\ UpTo(k, n, v, m).tags[n] = <<v>>
           /\ \A x : Matches(x, UpTo(k, n, v, m)) <=> x.kind = k /\ v \in Values(x, n)
<1> DEFINE f == UpTo(k, n, v, m)
           z == <<>>
           b == <<k>>
           t == [x \in {n} |-> <<v>>]
           l == 0
<1>1. /\ AnyFilter = [ids |-> z, pubkeys |-> z, kinds |-> z, tags |-> z,
                      since |-> None, until |-> None, search |-> None, limit |-> l]
      /\ OfKind(k) = [AnyFilter EXCEPT !.kinds = b]
  BY DEF AnyFilter, OfKind
<1>2. DOMAIN z = {} /\ z = <<>> /\ b = <<k>> /\ DOMAIN t = {n} /\ t[n] = <<v>>  OBVIOUS
<1>3. [x \in DOMAIN z \cup {n} |-> IF x = n THEN <<v>> ELSE z[x]] = t  BY <1>2
<1> HIDE DEF z, b, t, l
<1>4. OfKind(k) = [ids |-> z, pubkeys |-> z, kinds |-> b, tags |-> z,
                   since |-> None, until |-> None, search |-> None, limit |-> l]
  BY <1>1
<1>5. OfKind(k).tags = z  BY <1>4
<1>6. Tagged(OfKind(k), n, v) = [OfKind(k) EXCEPT !.tags = t]  BY <1>3, <1>5 DEF Tagged
<1>7. f = [ids |-> z, pubkeys |-> z, kinds |-> b, tags |-> t,
           since |-> None, until |-> None, search |-> None, limit |-> m]
  BY <1>4, <1>6 DEF UpTo
<1> HIDE DEF f
<1>8. Bounded(f)  BY <1>7 DEF Bounded
<1>9. \A x \in DOMAIN t : t[x] \in Seq(Range(t[x])) /\ Range(t[x]) = {v}  BY <1>2, OneValue
<1>10. b \in Seq(Range(b)) /\ Range(b) = {k} /\ b # <<>>  BY <1>2, OneValue
<1>11. Proper(f)  BY <1>2, <1>7, <1>8, <1>9, <1>10, AnyIs DEF Proper
<1>12. ASSUME NEW x PROVE Matches(x, f) <=> x.kind = k /\ v \in Values(x, n)
  <2>1. (\A y \in DOMAIN t : Values(x, y) \cap Range(t[y]) # {}) <=> v \in Values(x, n)  BY <1>2, <1>9
  <2>2. f.tags = t /\ f.pubkeys = <<>> /\ f.kinds = b /\ f.ids = <<>> /\ f.since = None /\ f.until = None
        /\ f.search = None
    BY <1>2, <1>7
  <2>. QED  BY <1>10, <2>1, <2>2 DEF Matches
<1>13. /\ f.ids = <<>> /\ f.limit = m /\ f.until = None /\ f.since = None /\ f.kinds = <<k>>
       /\ DOMAIN f.tags = {n} /\ f.tags[n] = <<v>>
  BY <1>2, <1>7
<1>. QED  BY <1>11, <1>12, <1>13 DEF f

LEMMA PlainTagged ==
    ASSUME NEW k, NEW n, NEW v
    PROVE  Tagged(OfKind(k), n, v) = UpTo(k, n, v, 0)
<1> DEFINE z == <<>>
           b == <<k>>
           t == [x \in DOMAIN OfKind(k).tags \cup {n} |-> IF x = n THEN <<v>> ELSE OfKind(k).tags[x]]
           l == 0
<1>1. /\ AnyFilter = [ids |-> z, pubkeys |-> z, kinds |-> z, tags |-> z,
                      since |-> None, until |-> None, search |-> None, limit |-> l]
      /\ OfKind(k) = [AnyFilter EXCEPT !.kinds = b]
      /\ Tagged(OfKind(k), n, v) = [OfKind(k) EXCEPT !.tags = t]
  BY DEF AnyFilter, OfKind, Tagged
<1> HIDE DEF z, b, t
<1>2. Tagged(OfKind(k), n, v) = [ids |-> z, pubkeys |-> z, kinds |-> b, tags |-> t,
                                 since |-> None, until |-> None, search |-> None, limit |-> l]
  <2>. HIDE DEF l
  <2>. QED  BY <1>1
<1>. QED  BY <1>2 DEF UpTo

\* Such a query is one scan of an index, cut at the limit.
Prefix(k, n, v) == IF n \in Letters THEN [index |-> "tag", name |-> n, value |-> v] ELSE [index |-> "kind", value |-> k]

LEMMA OneScan ==
    ASSUME NEW all, NEW k, NEW n, NEW v, NEW m \in Int
    PROVE  QueryEvents(all, UpTo(k, n, v, m))
         = {Cut(Scan(all, Prefix(k, n, v), UpTo(k, n, v, m)), Limit(UpTo(k, n, v, m)))}
<1> DEFINE f == UpTo(k, n, v, m)
<1>1. f.ids = <<>> /\ f.kinds = <<k>>  BY TaggedIs
<1>2. DOMAIN f.tags = {n} /\ f.tags[n] = <<v>>  BY TaggedIs
<1>3. <<k>> # <<>> /\ <<v>> # <<>>  OBVIOUS
<1>4. /\ Len(TagRanges(n, <<v>>)) = 1 /\ TagRanges(n, <<v>>)[1] = [index |-> "tag", name |-> n, value |-> v]
      /\ Len(KeyRanges("kind", <<k>>)) = 1 /\ KeyRanges("kind", <<k>>)[1] = [index |-> "kind", value |-> k]
  <2>1. DOMAIN <<v>> = {1} /\ DOMAIN <<k>> = {1} /\ <<v>>[1] = v /\ <<k>>[1] = k /\ 1..1 = {1}  OBVIOUS
  <2>2. \A s, x : s = [i \in {1} |-> x] => s = <<x>>
    <3>. SUFFICES ASSUME NEW s, NEW x, s = [i \in {1} |-> x] PROVE s = <<x>>  OBVIOUS
    <3>. QED  BY <2>1
  <2>3. TagRanges(n, <<v>>) = <<[index |-> "tag", name |-> n, value |-> v]>>  BY <2>1, <2>2 DEF TagRanges
  <2>4. KeyRanges("kind", <<k>>) = <<[index |-> "kind", value |-> k]>>  BY <2>1, <2>2 DEF KeyRanges
  <2>. QED  BY <2>3, <2>4
<1> HIDE DEF f
<1>5. CASE n \in Letters
  <2>1. QueryEvents(all, f) = {Collect(all, TagRanges(n, <<v>>), f)}
    BY <1>1, <1>2, <1>5 DEF QueryEvents, ByTags
  <2>. QED  BY <1>4, <1>5, <2>1 DEF Collect, Prefix, f
<1>6. CASE n \notin Letters
  <2>1. QueryEvents(all, f) = {Collect(all, KeyRanges("kind", <<k>>), f)}
    BY <1>1, <1>2, <1>3, <1>6 DEF QueryEvents, ByScan
  <2>. QED  BY <1>4, <1>6, <2>1 DEF Collect, Prefix, f
<1>. QED  BY <1>5, <1>6

\* The limit makes no difference for the scan.
LEMMA SameScan ==
    ASSUME NEW all, NEW k, NEW n, NEW v, NEW m \in Int, NEW p
    PROVE  Scan(all, p, UpTo(k, n, v, m)) = Scan(all, p, UpTo(k, n, v, 0))
<1> DEFINE f == UpTo(k, n, v, m)
           g == UpTo(k, n, v, 0)
<1>1. f.until = None /\ f.since = None /\ \A x : Matches(x, f) <=> x.kind = k /\ v \in Values(x, n)  BY TaggedIs
<1>2. g.until = None /\ g.since = None /\ \A x : Matches(x, g) <=> x.kind = k /\ v \in Values(x, n)  BY TaggedIs
<1> HIDE DEF f, g
<1>3. \A x : Matches(x, f) <=> Matches(x, g)  BY <1>1, <1>2
<1>4. ASSUME NEW s PROVE {i \in DOMAIN s : Matches(s[i], f)} = {i \in DOMAIN s : Matches(s[i], g)}  BY <1>3
<1>5. Scan(all, p, f) = Scan(all, p, g)  BY <1>1, <1>2, <1>4 DEF Scan
<1>. QED  BY <1>5 DEF f, g

-----------------------------------------------------------------------------
(* The newest permission event *)

\* Of events that come newest first, the first is the newest.
LEMMA LatestIs ==
    ASSUME NEW S, Timed(S), NEW s \in Seq(S), s # <<>>,
           \A i, j \in DOMAIN s : i < j => After(s[i], s[j])
    PROVE  Latest(s) = s[1]
<1> DEFINE T == Range(s)
           Before(x) == {y \in T : Newer(y, x)}
<1>1. Len(s) \in Nat /\ Len(s) # 0 /\ DOMAIN s = 1..Len(s) /\ \A i \in 1..Len(s) : s[i] \in S
  BY LenProperties, ElementOfSeq, EmptySeq
<1>2. T \subseteq S /\ s[1] \in T  BY <1>1 DEF Range
<1>3. \A x, y \in S : Newer(x, y) <=> After(x, y)  BY DEF Newer, After, Timed
<1>4. Before(s[1]) = {}
  <2>. SUFFICES ASSUME NEW y \in T, Newer(y, s[1]) PROVE FALSE  OBVIOUS
  <2>1. PICK j \in DOMAIN s : y = s[j]  BY DEF Range
  <2>2. y = s[1] \/ After(s[1], y)
    <3>1. j \in Nat /\ 1 \in DOMAIN s /\ (j = 1 \/ 1 < j)  BY <1>1
    <3>. QED  BY <2>1, <3>1
  <2>3. y \in S /\ s[1] \in S  BY <1>2
  <2>. QED  BY <2>2, <2>3 DEF Newer, After, Timed
<1>5. ASSUME NEW x \in T, x # s[1] PROVE s[1] \in Before(x)
  <2>1. PICK j \in DOMAIN s : x = s[j]  BY DEF Range
  <2>2. After(s[1], x)  BY <1>1, <1>5, <2>1
  <2>. QED  BY <1>2, <1>3, <2>2
<1>6. IsFiniteSet(T)  BY <1>2, FS_Subset DEF Timed
<1>7. \A x \in T : Cardinality(Before(x)) = 0 <=> x = s[1]
  <2>. SUFFICES ASSUME NEW x \in T PROVE Cardinality(Before(x)) = 0 <=> x = s[1]  OBVIOUS
  <2>1. IsFiniteSet(Before(x))
    <3>1. Before(x) \in SUBSET T  OBVIOUS
    <3>. HIDE DEF T, Before
    <3>. QED  BY <1>6, <3>1, FS_Subset
  <2>2. Cardinality(Before(x)) = 0 <=> Before(x) = {}
    <3>. HIDE DEF Before
    <3>. QED  BY <2>1, FS_EmptySet
  <2>. QED
    <3>. HIDE DEF Before, T
    <3>. QED  BY <1>4, <1>5, <2>2
<1>8. 1 \in 1..Cardinality(T)
  <2>1. Cardinality(T) \in Nat  BY <1>6, FS_CardinalityType
  <2>2. Cardinality(T) # 0
    <3>. HIDE DEF T
    <3>. QED  BY <1>2, <1>6, FS_EmptySet
  <2>. QED  BY <2>1, <2>2
<1>9. Latest(s) = CHOOSE x \in T : Cardinality(Before(x)) = 1 - 1  BY <1>8 DEF Latest, InOrder
<1>10. \A x \in T : Cardinality(Before(x)) = 1 - 1 <=> x = s[1]  BY <1>7
<1>. QED
  <2>. HIDE DEF T, Before
  <2>. QED  BY <1>2, <1>9, <1>10

\* All permission events of a repository that the store yields, newest first.
PermissionScan(all, r) == Scan(all, Prefix(31415, "r", r), UpTo(31415, "r", r, 0))

LEMMA PermissionsAre ==
    ASSUME NEW all, Timed(all), NEW r
    PROVE  /\ Permissions(all, r) = {Cut(PermissionScan(all, r), DefaultLimit)}
           /\ QueryEvents(all, UpTo(31415, "r", r, 1)) = {Cut(PermissionScan(all, r), 1)}
           /\ PermissionScan(all, r) \in Seq(all)
           /\ \A i, j \in DOMAIN PermissionScan(all, r) :
                 i < j => After(PermissionScan(all, r)[i], PermissionScan(all, r)[j])
           /\ \A e \in Range(PermissionScan(all, r)) : e \in all /\ e.kind = 31415 /\ r \in Values(e, "r")
<1> DEFINE f == UpTo(31415, "r", r, 0)
           g == UpTo(31415, "r", r, 1)
           p == Prefix(31415, "r", r)
           s == Scan(all, p, f)
<1>1. Permissions(all, r) = {Cut(s, Limit(f))}  BY OneScan, PlainTagged DEF Permissions
<1>2. QueryEvents(all, g) = {Cut(Scan(all, p, g), Limit(g))} /\ Scan(all, p, g) = s  BY OneScan, SameScan
<1>3. /\ Proper(f) /\ f.limit = 0 /\ g.limit = 1
      /\ \A x : Matches(x, f) <=> x.kind = 31415 /\ r \in Values(x, "r")
  BY TaggedIs
<1>4. Limit(f) = DefaultLimit /\ Limit(g) = 1  BY <1>3 DEF Limit
<1>5. Under(all, p) \subseteq all  BY DEF Under, Prefix
<1>6. Bounded(f)  BY <1>3 DEF Proper
<1> HIDE DEF f, g, p
<1>7. /\ Holds(s, {e \in Under(all, p) : Matches(e, f)})
      /\ \A i, j \in DOMAIN s : i < j => After(s[i], s[j])
  BY <1>5, <1>6, ScanIs
<1>8. \A e \in Range(s) : e \in all /\ e.kind = 31415 /\ r \in Values(e, "r")  BY <1>3, <1>5, <1>7 DEF Holds
<1>9. s \in Seq(all)
  <2>1. s \in [1..Len(s) -> {e \in Under(all, p) : Matches(e, f)}] /\ Len(s) \in Nat  BY <1>7, LenProperties DEF Holds
  <2>2. s \in [1..Len(s) -> all]  BY <1>5, <2>1
  <2>. QED  BY <2>1, <2>2, SeqDef
<1>. QED  BY <1>1, <1>2, <1>4, <1>7, <1>8, <1>9 DEF f, g, p, PermissionScan

\* Both ways to ask for the permission event of a repository agree.
LEMMA OneAnswer ==
    ASSUME NEW all, Timed(all), NEW r, NEW s \in Permissions(all, r), s # <<>>,
           NEW q \in QueryEvents(all, UpTo(31415, "r", r, 1))
    PROVE  q = <<Latest(s)>> /\ Latest(s) = s[1] /\ Latest(s) \in Range(s)
<1> DEFINE scan == PermissionScan(all, r)
<1>1. /\ s = Cut(scan, DefaultLimit) /\ q = Cut(scan, 1) /\ scan \in Seq(all)
      /\ \A i, j \in DOMAIN scan : i < j => After(scan[i], scan[j])
  BY PermissionsAre
<1> HIDE DEF scan
<1>2. DefaultLimit \in Nat /\ DefaultLimit # 0  BY StoreAssumption
<1>3. /\ s \in Seq(all) /\ Len(s) = (IF Len(scan) < DefaultLimit THEN Len(scan) ELSE DefaultLimit)
      /\ \A i \in DOMAIN s : i \in DOMAIN scan /\ s[i] = scan[i]
  BY <1>1, <1>2, CutIs
<1>4. q \in Seq(all) /\ Len(q) = (IF Len(scan) < 1 THEN Len(scan) ELSE 1) /\ \A i \in DOMAIN q : q[i] = scan[i]
  <2> DEFINE n == 1
  <2>1. n \in Nat /\ q = Cut(scan, n)  BY <1>1
  <2> HIDE DEF n
  <2>2. q \in Seq(all) /\ Len(q) = (IF Len(scan) < n THEN Len(scan) ELSE n) /\ \A i \in DOMAIN q : q[i] = scan[i]
    BY <1>1, <2>1, CutIs
  <2>. QED  BY <2>2 DEF n
<1>5. /\ Len(s) \in Nat /\ Len(s) # 0 /\ DOMAIN s = 1..Len(s) /\ Len(scan) \in Nat
      /\ DOMAIN q = 1..Len(q)
  BY <1>1, <1>3, <1>4, LenProperties, EmptySeq
<1>6. 1 \in DOMAIN s /\ s[1] = scan[1] /\ Len(q) = 1 /\ q[1] = scan[1]  BY <1>3, <1>4, <1>5
<1>7. q = <<s[1]>>  BY <1>4, <1>5, <1>6
<1>8. Latest(s) = s[1]
  <2>1. \A i, j \in DOMAIN s : i < j => After(s[i], s[j])  BY <1>1, <1>3
  <2>. QED  BY <1>3, <2>1, LatestIs
<1>. QED  BY <1>6, <1>7, <1>8 DEF Range

-----------------------------------------------------------------------------
(* The inductive invariant *)

Writing  == {"query", "verify", "bind"}
Cleaning == {"clean", "orphan", "refs", "drop"}
Removing == {"resolve", "gather", "erase", "release"}

Handler(s) == [pc : Pcs, pos : Nat \ {0}, old : Seq(All(s)), todo : Seq(All(s)),
               refs : SUBSET UNION {Refs(e) : e \in All(s)}, pass : Nat, had : SUBSET All(s)]

Perm(e, r) == e.kind = 31415 /\ FirstTag(e, "r") = r
Name(c)    == FirstTag(Ev(c), "r")

\* What the handler of a permission event has found, and goes through.
Finds(c) ==
    /\ (h[c].pc \in {"verify", "bind", "put"} \cup Cleaning /\ Ev(c).kind = 31415) =>
          \A i \in DOMAIN h[c].old : Perm(h[c].old[i], Name(c))
    /\ h[c].pc = "clean" => Range(h[c].todo) \subseteq Range(h[c].old)
    /\ h[c].pc \in {"refs", "drop"} => h[c].old # <<>> /\ Dropped(c)

Task(c) ==
    h[c].pc # "idle" =>
       /\ h[c].pos \in DOMAIN scene.script[c]
       /\ h[c].pc \in Writing \cup Cleaning => Ev(c).kind = 31415
       /\ h[c].pc \in Removing => Ev(c).kind = 72
       /\ Ev(c).kind \in {31415, 72} => Name(c) # None
       /\ h[c].pc = "erase" => h[c].todo # <<>>
       /\ Finds(c)

Shape ==
    /\ scene \in Scenes /\ Regular(scene) /\ Orderly(scene)
    /\ h \in [Conns -> Handler(scene)]
    /\ evt \subseteq All(scene) /\ moves \subseteq scene.moves /\ faults \in Nat /\ restarts \in Nat

Basics == Shape /\ \A c \in Conns : Task(c)

-----------------------------------------------------------------------------
(* What one step of a handler does *)

Frame(c) ==
    /\ scene' = scene /\ moves' = moves /\ restarts' = restarts
    /\ faults' \in Nat /\ (faults' = 0 => faults = 0)
    /\ h' \in [Conns -> Handler(scene)] /\ \A d \in Conns : d # c => h'[d] = h[d]

Turns(c) ==
    /\ h'[c].pc # "idle" => h'[c].pos = h[c].pos
    /\ h'[c].pc = "idle" => h'[c].pos = h[c].pos + 1
    /\ h'[c].pc \in Cleaning =>
          h[c].pc \in Cleaning \/ (h[c].pc = "put" /\ Ev(c).kind = 31415 /\ Ev(c) \in evt')
    /\ h[c].pc \in Cleaning => h'[c].pc \in Cleaning \cup {"idle"}

\* Which events go and come, and what the lists of the handler hold.
Events(c) ==
    /\ \A x \in evt : x \notin evt' =>
          \/ h[c].pc = "clean" /\ h[c].todo # <<>> /\ x = h[c].todo[1] /\ x # Ev(c)
          \/ h[c].pc = "erase" /\ x = h[c].todo[1]
    /\ \A x \in evt' : x \notin evt => h[c].pc = "put" /\ x = Ev(c)
    /\ h[c].pc = "put" /\ Ev(c) \in evt' /\ Ev(c) \notin evt =>
          h'[c].pc = IF Ev(c).kind = 31415 THEN "clean" ELSE "idle"

Recalls(c) ==
    /\ Range(h'[c].old) \subseteq Range(h[c].old) \cup evt
    /\ Range(h'[c].todo) \subseteq Range(h[c].todo) \cup Range(h[c].old) \cup evt
    /\ h'[c].had \subseteq h[c].had \cup evt
    /\ h'[c].pc = "clean" =>
          \/ h[c].pc = "clean" /\ Range(h'[c].todo) \subseteq Range(h[c].todo)
          \/ h[c].pc = "put" /\ h'[c].todo = h[c].old

Acks(c) ==
    oks' # oks => /\ oks' = oks \cup {Ev(c).id}
                  /\ h[c].pc = "orphan" \/ (h[c].pc = "put" /\ Ev(c).kind # 31415)

Frees(c) ==
    /\ own' \subseteq own
    /\ \A x \in own : x \notin own' =>
          \/ h[c].pc = "drop" /\ x[1] = OldGraph(c)
          \/ h[c].pc = "release" /\ x \in h[c].refs

Turn(c) == Frame(c) /\ Turns(c) /\ Events(c) /\ Recalls(c) /\ Acks(c) /\ Frees(c)

-----------------------------------------------------------------------------
(* Events *)

LEMMA EvIs ==
    ASSUME Shape, NEW c \in Conns, h[c].pos \in DOMAIN scene.script[c]
    PROVE  Ev(c) \in Sent /\ Ev(c) \in All(scene)
BY DEF Ev, Sent, SentBy, All, Range

LEMMA TimedEvents ==
    ASSUME Shape
    PROVE  Timed(evt)
<1>1. IsFiniteSet(evt)  BY FS_Subset DEF Shape, Regular
<1>. QED  BY <1>1 DEF Timed, Shape, Regular

\* Queries for the permission events of a repository find nothing else.
LEMMA PermsAre ==
    ASSUME Shape, NEW r, r # None, NEW e \in All(scene)
    PROVE  (e.kind = 31415 /\ r \in Values(e, "r")) <=> Perm(e, r)
<1>1. ASSUME e.kind = 31415, r \in Values(e, "r") PROVE FirstTag(e, "r") = r
  BY <1>1 DEF Shape, Orderly
<1>2. ASSUME e.kind = 31415, FirstTag(e, "r") = r PROVE r \in Values(e, "r")
  <2>1. e.tags \in Seq(Range(e.tags)) /\ First(e, {"r"}) # None  BY <1>2 DEF Shape, Regular, FirstTag
  <2>. QED  BY <1>2, <2>1, FirstIs DEF FirstTag
<1>. QED  BY <1>1, <1>2 DEF Perm

LEMMA PermissionsHold ==
    ASSUME Shape, NEW r, r # None, NEW s \in Permissions(evt, r)
    PROVE  /\ s \in Seq(evt) /\ s \in Seq(All(scene)) /\ Range(s) \subseteq evt
           /\ \A i \in DOMAIN s : Perm(s[i], r)
           /\ Cardinality({e \in evt : Perm(e, r)}) <= 1 => {e \in evt : Perm(e, r)} \subseteq Range(s)
<1> DEFINE f == UpTo(31415, "r", r, 0)
<1>1. Timed(evt) /\ evt \subseteq All(scene)  BY TimedEvents DEF Shape
<1>2. /\ Proper(f) /\ f.ids = <<>> /\ f.limit = 0
      /\ \A x : Matches(x, f) <=> x.kind = 31415 /\ r \in Values(x, "r")
  BY TaggedIs
<1>3. s \in QueryEvents(evt, f)  BY PlainTagged DEF Permissions
<1> HIDE DEF f
<1>4. /\ s \in Seq(evt) /\ Len(s) \in Nat /\ DOMAIN s = 1..Len(s)
      /\ \A i \in DOMAIN s : s[i] \in Matching(evt, f)
      /\ Cardinality(Matching(evt, f)) <= Limit(f) => Range(s) = Matching(evt, f)
  BY <1>1, <1>2, <1>3, AnswerIs
<1>5. Matching(evt, f) = {e \in evt : Perm(e, r)}  BY <1>1, <1>2, PermsAre DEF Matching
<1>6. Limit(f) \in Nat /\ Limit(f) # 0  BY <1>2, LimitIs DEF Proper
<1>7. s \in Seq(All(scene))
  <2>1. s \in [1..Len(s) -> All(scene)]
    <3>1. s \in [1..Len(s) -> evt]  BY <1>4, LenProperties
    <3>. QED  BY <1>1, <3>1
  <2>. QED  BY <1>4, <2>1, SeqDef
<1>8. Range(s) \subseteq evt /\ \A i \in DOMAIN s : Perm(s[i], r)  BY <1>4, <1>5 DEF Range
<1>9. ASSUME Cardinality({e \in evt : Perm(e, r)}) <= 1 PROVE {e \in evt : Perm(e, r)} \subseteq Range(s)
  <2>1. {e \in evt : Perm(e, r)} \in SUBSET evt  OBVIOUS
  <2>2. Cardinality({e \in evt : Perm(e, r)}) \in Nat  BY <1>1, <2>1, FS_Subset, FS_CardinalityType DEF Timed
  <2>. QED  BY <1>4, <1>5, <1>6, <1>9, <2>2
<1>. QED  BY <1>4, <1>7, <1>8, <1>9

-----------------------------------------------------------------------------
(* The steps *)

LEMMA HandlerIs ==
    ASSUME Shape, NEW c \in Conns
    PROVE  /\ h[c] \in Handler(scene)
           /\ h[c].pc \in Pcs /\ h[c].pos \in Nat \ {0} /\ h[c].old \in Seq(All(scene)) /\ h[c].todo \in Seq(All(scene))
           /\ h[c].had \subseteq All(scene) /\ h[c].pass \in Nat
BY DEF Shape, Handler

LEMMA ThenIs ==
    ASSUME Shape, NEW c \in Conns, NEW next \in Handler(scene), h' = [h EXCEPT ![c] = next]
    PROVE  h' \in [Conns -> Handler(scene)] /\ h'[c] = next /\ \A d \in Conns : d # c => h'[d] = h[d]
BY DEF Shape

LEMMA GotoIs ==
    ASSUME Shape, NEW c \in Conns, NEW pc \in Pcs, Goto(c, pc)
    PROVE  /\ h' \in [Conns -> Handler(scene)] /\ \A d \in Conns : d # c => h'[d] = h[d]
           /\ h'[c].pc = pc /\ h'[c].pos = h[c].pos /\ h'[c].old = h[c].old /\ h'[c].todo = h[c].todo
           /\ h'[c].refs = h[c].refs /\ h'[c].pass = h[c].pass /\ h'[c].had = h[c].had /\ oks' = oks
<1> DEFINE next == [h[c] EXCEPT !.pc = pc]
<1>1. h[c] \in Handler(scene)  BY HandlerIs
<1>2. /\ next \in Handler(scene) /\ next.pc = pc /\ next.pos = h[c].pos /\ next.old = h[c].old /\ next.todo = h[c].todo
      /\ next.refs = h[c].refs /\ next.pass = h[c].pass /\ next.had = h[c].had
  BY <1>1 DEF Handler
<1>3. h' = [h EXCEPT ![c] = next] /\ oks' = oks  BY DEF Goto, Then
<1> HIDE DEF next
<1>. QED  BY <1>2, <1>3, ThenIs

LEMMA NothingIn ==
           Range(<<>>) = {}
BY DEF Range

LEMMA EndIs ==
    ASSUME Shape, NEW c \in Conns, End(c)
    PROVE  /\ h' \in [Conns -> Handler(scene)] /\ \A d \in Conns : d # c => h'[d] = h[d]
           /\ h'[c].pc = "idle" /\ h'[c].pos = h[c].pos + 1 /\ Range(h'[c].old) = {} /\ Range(h'[c].todo) = {}
           /\ h'[c].had = {}
<1> DEFINE next == [AtRest EXCEPT !.pos = h[c].pos + 1]
<1>1. h[c].pos + 1 \in Nat \ {0}  BY HandlerIs
<1>2. /\ next \in Handler(scene) /\ next.pc = "idle" /\ next.pos = h[c].pos + 1 /\ next.old = <<>> /\ next.todo = <<>>
      /\ next.had = {}
  <2> DEFINE z == <<>>  p == h[c].pos + 1  n == {}  o == 0
  <2>1. AtRest = [pc |-> "idle", pos |-> 1, old |-> z, todo |-> z, refs |-> n, pass |-> o, had |-> n]  BY DEF AtRest
  <2>2. z \in Seq(All(scene)) /\ z = <<>> /\ n = {} /\ p \in Nat \ {0} /\ o \in Nat  BY <1>1
  <2>3. next = [AtRest EXCEPT !.pos = p]  OBVIOUS
  <2> HIDE DEF z, p, n, o, next
  <2>4. next = [pc |-> "idle", pos |-> p, old |-> z, todo |-> z, refs |-> n, pass |-> o, had |-> n]  BY <2>1, <2>3
  <2>5. n \subseteq All(scene) /\ n \subseteq UNION {Refs(e) : e \in All(scene)} /\ "idle" \in Pcs  BY <2>2 DEF Pcs
  <2>6. next \in Handler(scene)  BY <2>2, <2>4, <2>5 DEF Handler
  <2>. QED  BY <2>2, <2>4, <2>6 DEF p
<1>3. h' = [h EXCEPT ![c] = next]  BY DEF End
<1> HIDE DEF next
<1>. QED  BY <1>2, <1>3, ThenIs, NothingIn

\* What stays the same in most steps.
Calm == scene' = scene /\ moves' = moves /\ restarts' = restarts /\ (faults' = faults \/ faults' = faults + 1)

LEMMA CalmFaults ==
    ASSUME Shape, Calm
    PROVE  faults' \in Nat /\ (faults' = 0 => faults = 0)
BY DEF Shape, Calm

\* A step that ends the handler, and one that leads to another step.
LEMMA EndTurn ==
    ASSUME Shape, NEW c \in Conns, Calm, End(c), Events(c), Acks(c), Frees(c)
    PROVE  Turn(c) /\ Task(c)'
<1>1. /\ h' \in [Conns -> Handler(scene)] /\ \A d \in Conns : d # c => h'[d] = h[d]
      /\ h'[c].pc = "idle" /\ h'[c].pos = h[c].pos + 1 /\ Range(h'[c].old) = {} /\ Range(h'[c].todo) = {}
      /\ h'[c].had = {}
  BY EndIs
<1>2. "idle" \notin Cleaning /\ "idle" # "clean"  BY DEF Cleaning
<1>3. Frame(c)  BY <1>1, CalmFaults DEF Frame, Calm
<1>4. Turns(c)  BY <1>1, <1>2 DEF Turns
<1>5. Recalls(c)  BY <1>1, <1>2 DEF Recalls
<1>6. Task(c)'  BY <1>1 DEF Task
<1>. QED  BY <1>3, <1>4, <1>5, <1>6 DEF Turn

LEMMA GoTurn ==
    ASSUME Shape, NEW c \in Conns, Calm, Events(c), Acks(c), Frees(c), Recalls(c),
           h' \in [Conns -> Handler(scene)], \A d \in Conns : d # c => h'[d] = h[d],
           h'[c].pc # "idle", h'[c].pos = h[c].pos, h[c].pos \in DOMAIN scene.script[c],
           h'[c].pc \in Cleaning =>
              h[c].pc \in Cleaning \/ (h[c].pc = "put" /\ Ev(c).kind = 31415 /\ Ev(c) \in evt'),
           h[c].pc \in Cleaning => h'[c].pc \in Cleaning,
           h'[c].pc \in Writing \cup Cleaning => Ev(c).kind = 31415,
           h'[c].pc \in Removing => Ev(c).kind = 72,
           Ev(c).kind \in {31415, 72} => Name(c) # None,
           h'[c].pc = "erase" => h'[c].todo # <<>>,
           Finds(c)'
    PROVE  Turn(c) /\ Task(c)'
<1>1. Frame(c)  BY CalmFaults DEF Frame, Calm
<1>2. Turns(c)  BY DEF Turns
<1>3. Ev(c)' = Ev(c) /\ Name(c)' = Name(c) /\ scene' = scene  BY DEF Ev, Name, Calm
<1>4. Task(c)'  BY <1>3 DEF Task
<1>. QED  BY <1>1, <1>2, <1>4 DEF Turn

LEMMA SameStores ==
    ASSUME NEW c, evt' = evt, own' = own, h'[c].pc # "idle" \/ h[c].pc # "put" \/ Ev(c) \in evt \/ Ev(c) \notin evt
    PROVE  Events(c) /\ Frees(c)
BY DEF Events, Frees

LEMMA AdmitTurn ==
    ASSUME Shape, NEW c \in Conns, Admit(c)
    PROVE  Turn(c) /\ Task(c)'
<1>1. /\ Calm /\ evt' = evt /\ own' = own /\ h[c].pc = "idle" /\ h[c].pos <= Len(scene.script[c])  BY DEF Admit, Calm
<1>2. Events(c) /\ Frees(c)  BY <1>1, SameStores
<1>3. h[c].pos \in DOMAIN scene.script[c]
  <2>1. scene.script[c] \in Seq(Range(scene.script[c]))  BY DEF Shape, Regular
  <2>2. Len(scene.script[c]) \in Nat /\ DOMAIN scene.script[c] = 1..Len(scene.script[c])  BY <2>1, LenProperties
  <2>. QED  BY <1>1, <2>2, HandlerIs
<1>4. CASE Refuse(c)
  <2>1. End(c) /\ Acks(c)  BY <1>4 DEF Refuse, Acks
  <2>. QED  BY <1>1, <1>2, <2>1, EndTurn
<1>5. ASSUME NEW pc \in {"query", "resolve", "put"}, Goto(c, pc),
             pc = "query" => Ev(c).kind = 31415, pc = "resolve" => Ev(c).kind = 72,
             pc = "put" => Ev(c).kind \notin {31415, 72}, Ev(c).kind \in {31415, 72} => Name(c) # None
      PROVE  Turn(c) /\ Task(c)'
  <2>1. pc \in Pcs /\ pc \notin Cleaning \cup {"idle", "clean", "erase", "refs", "drop", "verify", "bind"}
    BY DEF Pcs, Cleaning
  <2>2. /\ h' \in [Conns -> Handler(scene)] /\ \A d \in Conns : d # c => h'[d] = h[d]
        /\ h'[c].pc = pc /\ h'[c].pos = h[c].pos /\ h'[c].old = h[c].old /\ h'[c].todo = h[c].todo
        /\ h'[c].had = h[c].had /\ oks' = oks
    BY <1>5, <2>1, GotoIs
  <2>3. Acks(c) /\ Recalls(c)  BY <2>1, <2>2 DEF Acks, Recalls
  <2>4. Ev(c)' = Ev(c)  BY <1>1, <2>2 DEF Ev, Calm
  <2>5. Finds(c)'  BY <1>5, <2>1, <2>2, <2>4 DEF Finds
  <2>6. h[c].pc \notin Cleaning  BY <1>1 DEF Cleaning
  <2>7. pc \in Writing => pc = "query"  BY <2>1 DEF Writing
  <2>8. pc \in Removing => pc = "resolve"  BY <1>5 DEF Removing
  <2>. QED  BY <1>1, <1>2, <1>3, <1>5, <2>1, <2>2, <2>3, <2>5, <2>6, <2>7, <2>8, GoTurn
<1>6. \/ Refuse(c)
      \/ Ev(c).kind = 31415 /\ Name(c) # None /\ Goto(c, "query")
      \/ Ev(c).kind = 72 /\ Name(c) # None /\ Goto(c, "resolve")
      \/ Ev(c).kind \notin {31415, 72} /\ Goto(c, "put")
  BY DEF Admit, Name
<1>. QED  BY <1>4, <1>5, <1>6

LEMMA QueryTurn ==
    ASSUME Shape, NEW c \in Conns, Task(c), Query(c)
    PROVE  Turn(c) /\ Task(c)'
<1>1. Calm /\ evt' = evt /\ own' = own /\ h[c].pc = "query"  BY DEF Query, Calm
<1>2. Events(c) /\ Frees(c)  BY <1>1, SameStores
<1>3. /\ h[c].pos \in DOMAIN scene.script[c] /\ Ev(c).kind = 31415 /\ Name(c) # None
  BY <1>1 DEF Task, Writing
<1>4. PICK old \in Permissions(evt, Name(c)) : Then(c, [h[c] EXCEPT !.pc = "verify", !.old = old])
  BY DEF Query, Name
<1>5. old \in Seq(All(scene)) /\ Range(old) \subseteq evt /\ \A i \in DOMAIN old : Perm(old[i], Name(c))
  <2> DEFINE r == Name(c)
  <2>1. r # None /\ old \in Permissions(evt, r)  BY <1>3, <1>4
  <2> HIDE DEF r
  <2>2. old \in Seq(All(scene)) /\ Range(old) \subseteq evt /\ \A i \in DOMAIN old : Perm(old[i], r)
    BY <2>1, PermissionsHold
  <2>. QED  BY <2>2 DEF r
<1> DEFINE next == [h[c] EXCEPT !.pc = "verify", !.old = old]
<1>6. /\ next \in Handler(scene) /\ next.pc = "verify" /\ next.pos = h[c].pos /\ next.old = old /\ next.todo = h[c].todo
      /\ next.had = h[c].had
  BY <1>5, HandlerIs DEF Handler, Pcs
<1>7. h' = [h EXCEPT ![c] = next] /\ oks' = oks  BY <1>4 DEF Then
<1> HIDE DEF next
<1>8. h' \in [Conns -> Handler(scene)] /\ h'[c] = next /\ \A d \in Conns : d # c => h'[d] = h[d]  BY <1>6, <1>7, ThenIs
<1>9. Acks(c) /\ Recalls(c)  BY <1>5, <1>6, <1>7, <1>8 DEF Acks, Recalls
<1>10. Ev(c)' = Ev(c) /\ Name(c)' = Name(c)  BY <1>1, <1>6, <1>8 DEF Ev, Name, Calm
<1>11. Finds(c)'  BY <1>5, <1>6, <1>8, <1>10 DEF Finds
<1>12. "verify" \notin Cleaning \cup Removing /\ h[c].pc \notin Cleaning  BY <1>1 DEF Cleaning, Removing
<1>. QED  BY <1>1, <1>2, <1>3, <1>6, <1>8, <1>9, <1>11, <1>12, GoTurn

\* A step that leaves the stores alone and goes on to another.
LEMMA GotoTurn ==
    ASSUME Shape, NEW c \in Conns, Task(c), Calm, h[c].pc # "idle", evt' = evt, own' = own,
           NEW pc \in Pcs \ {"idle", "clean", "erase"}, Goto(c, pc),
           pc \in Cleaning <=> h[c].pc \in Cleaning,
           pc \in Writing \cup Cleaning => Ev(c).kind = 31415,
           pc \in Removing => Ev(c).kind = 72,
           pc \in {"verify", "bind", "put"} /\ Ev(c).kind = 31415 => h[c].pc \in {"verify", "bind", "put"},
           pc \in {"refs", "drop"} => h[c].old # <<>> /\ Dropped(c)
    PROVE  Turn(c) /\ Task(c)'
<1>1. /\ h' \in [Conns -> Handler(scene)] /\ \A d \in Conns : d # c => h'[d] = h[d]
      /\ h'[c].pc = pc /\ h'[c].pos = h[c].pos /\ h'[c].old = h[c].old /\ h'[c].todo = h[c].todo
      /\ h'[c].had = h[c].had /\ oks' = oks
  BY GotoIs
<1>2. Events(c) /\ Frees(c)  BY <1>1, SameStores
<1>3. Acks(c) /\ Recalls(c)  BY <1>1 DEF Acks, Recalls
<1>4. Ev(c)' = Ev(c) /\ Name(c)' = Name(c)  BY <1>1 DEF Ev, Name, Calm
<1>5. Dropped(c)' <=> Dropped(c)  BY <1>1, <1>4 DEF Dropped, OldGraph
<1>6. /\ (h[c].pc \in {"verify", "bind", "put"} \cup Cleaning /\ Ev(c).kind = 31415) =>
            \A i \in DOMAIN h[c].old : Perm(h[c].old[i], Name(c))
      /\ h[c].pos \in DOMAIN scene.script[c] /\ (Ev(c).kind \in {31415, 72} => Name(c) # None)
  BY DEF Task, Finds
<1>7. Finds(c)'  BY <1>1, <1>4, <1>5, <1>6 DEF Finds
<1>. QED  BY <1>1, <1>2, <1>3, <1>6, <1>7, GoTurn

LEMMA VerifyTurn ==
    ASSUME Shape, NEW c \in Conns, Task(c), Verify(c)
    PROVE  Turn(c) /\ Task(c)'
<1>1. Calm /\ evt' = evt /\ own' = own /\ h[c].pc = "verify"  BY DEF Verify, Calm
<1>2. CASE Refuse(c)
  <2>1. End(c) /\ Acks(c)  BY <1>2 DEF Refuse, Acks
  <2>2. Events(c) /\ Frees(c)  BY <1>1, SameStores
  <2>. QED  BY <1>1, <2>1, <2>2, EndTurn
<1>3. ASSUME NEW pc \in {"put", "bind"}, Goto(c, pc) PROVE Turn(c) /\ Task(c)'
  <2>1. /\ pc \in Pcs \ {"idle", "clean", "erase"} /\ pc \notin Cleaning /\ pc \notin Removing
        /\ h[c].pc \notin Cleaning /\ pc \notin {"refs", "drop"}
    BY <1>1 DEF Pcs, Cleaning, Removing
  <2>2. Ev(c).kind = 31415  BY <1>1 DEF Task, Writing
  <2>. QED  BY <1>1, <1>3, <2>1, <2>2, GotoTurn
<1>. QED  BY <1>2, <1>3 DEF Verify

LEMMA BindTurn ==
    ASSUME Shape, NEW c \in Conns, Task(c), Bind(c)
    PROVE  Turn(c) /\ Task(c)'
<1>1. Calm /\ evt' = evt /\ own' = own /\ h[c].pc = "bind"  BY DEF Bind, Calm
<1>2. CASE Refuse(c)
  <2>1. End(c) /\ Acks(c)  BY <1>2 DEF Refuse, Acks
  <2>2. Events(c) /\ Frees(c)  BY <1>1, SameStores
  <2>. QED  BY <1>1, <2>1, <2>2, EndTurn
<1>3. CASE Goto(c, "put")
  <2>1. /\ "put" \in Pcs \ {"idle", "clean", "erase"} /\ "put" \notin Cleaning /\ "put" \notin Removing
        /\ h[c].pc \notin Cleaning
    BY <1>1 DEF Pcs, Cleaning, Removing
  <2>2. Ev(c).kind = 31415  BY <1>1 DEF Task, Writing
  <2>. QED  BY <1>1, <1>3, <2>1, <2>2, GotoTurn
<1>. QED  BY <1>2, <1>3 DEF Bind

LEMMA PutTurn ==
    ASSUME Shape, NEW c \in Conns, Task(c), Put(c)
    PROVE  Turn(c) /\ Task(c)'
<1>1. Calm /\ own' = own /\ h[c].pc = "put" /\ h[c].pc \notin Cleaning  BY DEF Put, Calm, Fault, Cleaning
<1>2. Frees(c)  BY <1>1 DEF Frees
<1>3. ASSUME evt' = evt \cup {Ev(c)}, Ev(c).kind = 31415,
             Then(c, [h[c] EXCEPT !.pc = "clean", !.todo = h[c].old])
      PROVE  Turn(c) /\ Task(c)'
  <2> DEFINE next == [h[c] EXCEPT !.pc = "clean", !.todo = h[c].old]
  <2>1. /\ next \in Handler(scene) /\ next.pc = "clean" /\ next.pos = h[c].pos /\ next.old = h[c].old
        /\ next.todo = h[c].old /\ next.had = h[c].had
    BY HandlerIs DEF Handler, Pcs
  <2>2. h' = [h EXCEPT ![c] = next] /\ oks' = oks  BY <1>3 DEF Then
  <2> HIDE DEF next
  <2>3. h' \in [Conns -> Handler(scene)] /\ h'[c] = next /\ \A d \in Conns : d # c => h'[d] = h[d]  BY <2>1, <2>2, ThenIs
  <2>4. Events(c)  BY <1>1, <1>3, <2>1, <2>3 DEF Events
  <2>5. Acks(c) /\ Recalls(c)  BY <1>1, <2>1, <2>2, <2>3 DEF Acks, Recalls
  <2>6. Ev(c)' = Ev(c) /\ Name(c)' = Name(c)  BY <1>1, <2>1, <2>3 DEF Ev, Name, Calm
  <2>7. /\ \A i \in DOMAIN h[c].old : Perm(h[c].old[i], Name(c))
        /\ h[c].pos \in DOMAIN scene.script[c] /\ Name(c) # None
    BY <1>1, <1>3 DEF Task, Finds
  <2>8. Finds(c)'  BY <2>1, <2>3, <2>6, <2>7 DEF Finds
  <2>9. "clean" \notin Removing /\ Ev(c) \in evt'  BY <1>3 DEF Removing
  <2>. QED  BY <1>1, <1>2, <1>3, <2>1, <2>3, <2>4, <2>5, <2>7, <2>8, <2>9, GoTurn
<1>4. ASSUME evt' = evt \cup {Ev(c)}, Ev(c).kind # 31415, Ok(c)
      PROVE  Turn(c) /\ Task(c)'
  <2>1. End(c) /\ Acks(c)  BY <1>1, <1>4 DEF Ok, Acks
  <2>2. h'[c].pc = "idle"  BY <2>1, EndIs
  <2>3. Events(c)  BY <1>1, <1>4, <2>2 DEF Events
  <2>. QED  BY <1>1, <1>2, <2>1, <2>3, EndTurn
<1>5. ASSUME evt' = evt, Refuse(c) \/ (Ok(c) /\ Ev(c).kind = 72)
      PROVE  Turn(c) /\ Task(c)'
  <2>1. End(c) /\ Acks(c)  BY <1>1, <1>5 DEF Ok, Refuse, Acks
  <2>2. Events(c)  BY <1>1, <1>5 DEF Events
  <2>. QED  BY <1>1, <1>2, <2>1, <2>2, EndTurn
<1>. QED  BY <1>3, <1>4, <1>5 DEF Put

LEMMA TailIs ==
    ASSUME NEW T, NEW s \in Seq(T), s # <<>>
    PROVE  /\ Tail(s) \in Seq(T) /\ Range(Tail(s)) \subseteq Range(s) /\ s[1] \in Range(s)
           /\ \A x \in Range(s) : x = s[1] \/ x \in Range(Tail(s))
           /\ \A i \in DOMAIN Tail(s) : i + 1 \in DOMAIN s /\ Tail(s)[i] = s[i + 1]
<1>1. Len(s) \in Nat /\ Len(s) # 0 /\ DOMAIN s = 1..Len(s)  BY LenProperties, EmptySeq
<1>2. /\ Tail(s) \in Seq(T) /\ Len(Tail(s)) = Len(s) - 1
      /\ \A i \in 1..(Len(s) - 1) : Tail(s)[i] = s[i + 1]
  BY HeadTailProperties
<1>3. DOMAIN Tail(s) = 1..(Len(s) - 1)  BY <1>2, LenProperties
<1>4. \A i \in DOMAIN Tail(s) : i + 1 \in DOMAIN s /\ Tail(s)[i] = s[i + 1]  BY <1>1, <1>2, <1>3
<1>5. Range(Tail(s)) \subseteq Range(s)  BY <1>4 DEF Range
<1>6. 1 \in DOMAIN s  BY <1>1
<1>7. s[1] \in Range(s)  BY <1>6 DEF Range
<1>8. ASSUME NEW x \in Range(s) PROVE x = s[1] \/ x \in Range(Tail(s))
  <2>1. PICK i \in 1..Len(s) : x = s[i]  BY <1>1 DEF Range
  <2>2. i = 1 \/ (i - 1 \in 1..(Len(s) - 1) /\ (i - 1) + 1 = i)  BY <1>1
  <2>3. i = 1 \/ (i - 1 \in DOMAIN Tail(s) /\ Tail(s)[i - 1] = x)  BY <1>2, <1>3, <2>1, <2>2
  <2>. QED  BY <2>1, <2>3 DEF Range
<1>. QED  BY <1>2, <1>4, <1>5, <1>7, <1>8

LEMMA CleanTurn ==
    ASSUME Shape, NEW c \in Conns, Task(c), Clean(c)
    PROVE  Turn(c) /\ Task(c)'
<1>1. Calm /\ own' = own /\ h[c].pc = "clean" /\ h[c].pc \in Cleaning  BY DEF Clean, Calm, Fault, Cleaning
<1>2. Frees(c)  BY <1>1 DEF Frees
<1>3. CASE h[c].todo = <<>>
  <2>1. Goto(c, "orphan") /\ evt' = evt  BY <1>3 DEF Clean
  <2>2. /\ "orphan" \in Pcs \ {"idle", "clean", "erase"} /\ "orphan" \in Cleaning /\ "orphan" \notin Removing
        /\ "orphan" \notin {"verify", "bind", "put", "refs", "drop"}
    BY DEF Pcs, Cleaning, Removing
  <2>3. Ev(c).kind = 31415  BY <1>1 DEF Task
  <2>. QED  BY <1>1, <2>1, <2>2, <2>3, GotoTurn
<1>4. CASE h[c].todo # <<>>
  <2> DEFINE rest == Tail(h[c].todo)
             next == [h[c] EXCEPT !.todo = Tail(h[c].todo)]
  <2>1. Then(c, next) /\ (evt' = evt \/ evt' = {e \in evt : ~Outdated(c, e)})  BY <1>4 DEF Clean
  <2>2. rest \in Seq(All(scene)) /\ Range(rest) \subseteq Range(h[c].todo)  BY <1>4, HandlerIs, TailIs
  <2>3. /\ next \in Handler(scene) /\ next.pc = "clean" /\ next.pos = h[c].pos /\ next.old = h[c].old
        /\ next.todo = rest /\ next.had = h[c].had
    BY <1>1, <2>2, HandlerIs DEF Handler
  <2>4. h' = [h EXCEPT ![c] = next] /\ oks' = oks  BY <2>1 DEF Then
  <2> HIDE DEF next, rest
  <2>5. h' \in [Conns -> Handler(scene)] /\ h'[c] = next /\ \A d \in Conns : d # c => h'[d] = h[d]  BY <2>3, <2>4, ThenIs
  <2>6. Events(c)  BY <1>1, <1>4, <2>1 DEF Events, Outdated
  <2>7. Acks(c) /\ Recalls(c)  BY <1>1, <2>2, <2>3, <2>4, <2>5 DEF Acks, Recalls
  <2>8. Ev(c)' = Ev(c) /\ Name(c)' = Name(c)  BY <1>1, <2>3, <2>5 DEF Ev, Name, Calm
  <2>9. /\ \A i \in DOMAIN h[c].old : Perm(h[c].old[i], Name(c))
        /\ h[c].pos \in DOMAIN scene.script[c] /\ Name(c) # None /\ Ev(c).kind = 31415
        /\ Range(h[c].todo) \subseteq Range(h[c].old)
    BY <1>1 DEF Task, Finds
  <2>10. Finds(c)'  BY <2>2, <2>3, <2>5, <2>8, <2>9 DEF Finds
  <2>11. "clean" \notin Removing  BY DEF Removing
  <2>. QED  BY <1>1, <1>2, <2>3, <2>5, <2>6, <2>7, <2>9, <2>10, <2>11, GoTurn
<1>. QED  BY <1>3, <1>4

\* The next of the versions that were found.
LEMMA NextOld ==
    ASSUME Shape, NEW c \in Conns, Task(c), Calm, h[c].pc \in Cleaning, h[c].old # <<>>,
           Then(c, [h[c] EXCEPT !.pc = "orphan", !.old = Tail(h[c].old)]), evt' = evt, Frees(c)
    PROVE  Turn(c) /\ Task(c)'
<1> DEFINE rest == Tail(h[c].old)
           next == [h[c] EXCEPT !.pc = "orphan", !.old = Tail(h[c].old)]
<1>1. /\ rest \in Seq(All(scene)) /\ Range(rest) \subseteq Range(h[c].old)
      /\ \A i \in DOMAIN rest : i + 1 \in DOMAIN h[c].old /\ rest[i] = h[c].old[i + 1]
  BY HandlerIs, TailIs
<1>2. /\ next \in Handler(scene) /\ next.pc = "orphan" /\ next.pos = h[c].pos /\ next.old = rest
      /\ next.todo = h[c].todo /\ next.had = h[c].had
  BY <1>1, HandlerIs DEF Handler, Pcs
<1>3. h' = [h EXCEPT ![c] = next] /\ oks' = oks  BY DEF Then
<1> HIDE DEF next, rest
<1>4. h' \in [Conns -> Handler(scene)] /\ h'[c] = next /\ \A d \in Conns : d # c => h'[d] = h[d]  BY <1>2, <1>3, ThenIs
<1>5. Events(c)  BY <1>2, <1>4 DEF Events, Cleaning
<1>6. Acks(c) /\ Recalls(c)  BY <1>1, <1>2, <1>3, <1>4 DEF Acks, Recalls
<1>7. Ev(c)' = Ev(c) /\ Name(c)' = Name(c)  BY <1>2, <1>4 DEF Ev, Name, Calm
<1>8. /\ \A i \in DOMAIN h[c].old : Perm(h[c].old[i], Name(c))
      /\ h[c].pos \in DOMAIN scene.script[c] /\ Name(c) # None /\ Ev(c).kind = 31415
  <2>1. h[c].pc # "idle"  BY DEF Cleaning
  <2>. QED  BY <2>1 DEF Task, Finds
<1>9. Finds(c)'  BY <1>1, <1>2, <1>4, <1>7, <1>8 DEF Finds
<1>10. "orphan" \notin Removing /\ "orphan" \in Cleaning  BY DEF Removing, Cleaning
<1>. QED  BY <1>2, <1>4, <1>5, <1>6, <1>8, <1>9, <1>10, GoTurn

LEMMA ForgetTurn ==
    ASSUME Shape, NEW c \in Conns, Task(c), Forget(c)
    PROVE  Turn(c) /\ Task(c)'
<1>1. Calm /\ evt' = evt /\ own' = own /\ h[c].pc = "orphan" /\ h[c].pc \in Cleaning  BY DEF Forget, Calm, Cleaning
<1>2. Events(c) /\ Frees(c)  BY <1>1, SameStores
<1>3. CASE h[c].old = <<>>
  <2>1. End(c) /\ Acks(c)  BY <1>1, <1>3 DEF Forget, Ok, Acks
  <2>. QED  BY <1>1, <1>2, <2>1, EndTurn
<1>4. CASE h[c].old # <<>> /\ Dropped(c)
  <2>1. Goto(c, "refs")  BY <1>4 DEF Forget
  <2>2. /\ "refs" \in Pcs \ {"idle", "clean", "erase"} /\ "refs" \in Cleaning /\ "refs" \notin Removing
        /\ "refs" \notin {"verify", "bind", "put"}
    BY DEF Pcs, Cleaning, Removing
  <2>3. Ev(c).kind = 31415  BY <1>1 DEF Task
  <2>. QED  BY <1>1, <1>4, <2>1, <2>2, <2>3, GotoTurn
<1>5. CASE h[c].old # <<>> /\ ~Dropped(c)
  <2>1. Then(c, [h[c] EXCEPT !.pc = "orphan", !.old = Tail(h[c].old)])
    <3>1. h[c] = [h[c] EXCEPT !.pc = "orphan"]  BY <1>1, HandlerIs DEF Handler
    <3>2. Then(c, [h[c] EXCEPT !.old = Tail(h[c].old)])  BY <1>5 DEF Forget
    <3>3. [h[c] EXCEPT !.pc = "orphan", !.old = Tail(h[c].old)] = [h[c] EXCEPT !.old = Tail(h[c].old)]
      BY <1>1, HandlerIs DEF Handler
    <3>. QED  BY <3>2, <3>3
  <2>. QED  BY <1>1, <1>2, <1>5, <2>1, NextOld
<1>. QED  BY <1>3, <1>4, <1>5

LEMMA LookTurn ==
    ASSUME Shape, NEW c \in Conns, Task(c), LookForRefs(c)
    PROVE  Turn(c) /\ Task(c)'
<1>1. Calm /\ evt' = evt /\ own' = own /\ h[c].pc = "refs" /\ h[c].pc \in Cleaning  BY DEF LookForRefs, Calm, Cleaning
<1>2. h[c].old # <<>> /\ Dropped(c) /\ Ev(c).kind = 31415  BY <1>1 DEF Task, Finds
<1>3. CASE Goto(c, "drop")
  <2>1. /\ "drop" \in Pcs \ {"idle", "clean", "erase"} /\ "drop" \in Cleaning /\ "drop" \notin Removing
        /\ "drop" \notin {"verify", "bind", "put"}
    BY DEF Pcs, Cleaning, Removing
  <2>. QED  BY <1>1, <1>2, <1>3, <2>1, GotoTurn
<1>4. CASE Then(c, [h[c] EXCEPT !.pc = "orphan", !.old = Tail(h[c].old)])
  <2>1. Frees(c)  BY <1>1 DEF Frees
  <2>2. Calm /\ evt' = evt /\ h[c].pc \in Cleaning /\ h[c].old # <<>>  BY <1>1, <1>2
  <2>. QED  BY <1>4, <2>1, <2>2, NextOld
<1>. QED  BY <1>3, <1>4 DEF LookForRefs

LEMMA DropTurn ==
    ASSUME Shape, NEW c \in Conns, Task(c), Drop(c)
    PROVE  Turn(c) /\ Task(c)'
<1>1. Calm /\ evt' = evt /\ h[c].pc = "drop" /\ h[c].pc \in Cleaning  BY DEF Drop, Calm, Cleaning
<1>2. h[c].old # <<>>  BY <1>1 DEF Task, Finds
<1>3. Frees(c)  BY <1>1 DEF Frees, Drop
<1>. QED  BY <1>1, <1>2, <1>3, NextOld DEF Drop

\* The query for the events of a resource.
Part(r) == [Resource(r) EXCEPT !.limit = Batch]

LEMMA PartIs ==
    ASSUME NEW r
    PROVE  /\ Proper(Part(r)) /\ Part(r).ids = <<>> /\ Part(r).limit = Batch
           /\ \A x : Matches(x, Part(r)) <=> r \in Values(x, "r")
           /\ \A x : Matches(x, Resource(r)) <=> r \in Values(x, "r")
<1> DEFINE f == Part(r)
           g == Resource(r)
           z == <<>>
           t == [n \in {"r"} |-> <<r>>]
           l == 0
           m == Batch
<1>0. /\ AnyFilter = [ids |-> z, pubkeys |-> z, kinds |-> z, tags |-> z,
                      since |-> None, until |-> None, search |-> None, limit |-> l]
      /\ g = [AnyFilter EXCEPT !.tags = t] /\ f = [g EXCEPT !.limit = m]
  BY DEF AnyFilter, Resource, Part
<1>1. z = <<>> /\ DOMAIN t = {"r"} /\ t["r"] = <<r>> /\ m \in Int /\ m = Batch  BY CascadeAssumption
<1> HIDE DEF f, g, z, t, l, m
<1>2. g = [ids |-> z, pubkeys |-> z, kinds |-> z, tags |-> t,
           since |-> None, until |-> None, search |-> None, limit |-> l]
  BY <1>0
<1>3. f = [ids |-> z, pubkeys |-> z, kinds |-> z, tags |-> t,
           since |-> None, until |-> None, search |-> None, limit |-> m]
  BY <1>0, <1>2
<1>4. \A n \in DOMAIN t : t[n] \in Seq(Range(t[n])) /\ Range(t[n]) = {r}  BY <1>1, OneValue
<1>5. Bounded(f)  BY <1>1, <1>3 DEF Bounded
<1>6. Proper(f)  BY <1>1, <1>3, <1>4, <1>5, AnyIs DEF Proper
<1>7. \A x : (\A n \in DOMAIN t : Values(x, n) \cap Range(t[n]) # {}) <=> r \in Values(x, "r")  BY <1>1, <1>4
<1>8. ASSUME NEW x PROVE Matches(x, f) <=> r \in Values(x, "r")
  <2>1. f.tags = t /\ f.pubkeys = <<>> /\ f.kinds = <<>> /\ f.ids = <<>> /\ f.since = None /\ f.until = None
        /\ f.search = None
    BY <1>1, <1>3
  <2>. QED  BY <1>7, <2>1 DEF Matches
<1>9. ASSUME NEW x PROVE Matches(x, g) <=> r \in Values(x, "r")
  <2>1. g.tags = t /\ g.pubkeys = <<>> /\ g.kinds = <<>> /\ g.ids = <<>> /\ g.since = None /\ g.until = None
        /\ g.search = None
    BY <1>1, <1>2
  <2>. QED  BY <1>7, <2>1 DEF Matches
<1>10. f.ids = <<>> /\ f.limit = Batch  BY <1>1, <1>3
<1>. QED  BY <1>6, <1>8, <1>9, <1>10 DEF f, g

\* A batch holds events of the resource, and all of them unless it is full.
LEMMA BatchIs ==
    ASSUME Shape, NEW r, NEW s \in QueryEvents(evt, Part(r))
    PROVE  /\ s \in Seq(All(scene)) /\ Range(s) \subseteq evt
           /\ \A i \in DOMAIN s : s[i] \in evt /\ r \in Values(s[i], "r")
           /\ Len(s) # Batch => \A e \in evt : r \in Values(e, "r") => e \in Range(s)
<1> DEFINE f == Part(r)
<1>1. Timed(evt) /\ evt \subseteq All(scene)  BY TimedEvents DEF Shape
<1>2. /\ Proper(f) /\ f.ids = <<>> /\ f.limit = Batch /\ \A x : Matches(x, f) <=> r \in Values(x, "r")
  BY PartIs
<1> HIDE DEF f
<1>3. s \in QueryEvents(evt, f)  BY DEF f
<1>4. /\ s \in Seq(evt) /\ Len(s) \in Nat /\ DOMAIN s = 1..Len(s)
      /\ \A i \in DOMAIN s : s[i] \in Matching(evt, f)
      /\ Cardinality(Matching(evt, f)) <= Limit(f) => Range(s) = Matching(evt, f)
  BY <1>1, <1>2, <1>3, AnswerIs
<1>5. Limit(f) = Batch /\ Batch \in Nat  BY <1>2, CascadeAssumption DEF Limit
<1>6. Newest(evt, f, s)  BY <1>1, <1>2, <1>3, QueryIs DEF Right
<1>7. Len(s) = IF Cardinality(Matching(evt, f)) < Limit(f) THEN Cardinality(Matching(evt, f)) ELSE Limit(f)
  BY <1>6 DEF Newest, Matching
<1>8. Cardinality(Matching(evt, f)) \in Nat
  <2>1. Matching(evt, f) \in SUBSET evt  BY DEF Matching
  <2>. QED  BY <1>1, <2>1, FS_Subset, FS_CardinalityType DEF Timed
<1>9. Len(s) # Batch => Range(s) = Matching(evt, f)  BY <1>4, <1>5, <1>7, <1>8
<1>10. Len(s) # Batch => \A e \in evt : r \in Values(e, "r") => e \in Range(s)  BY <1>2, <1>9 DEF Matching
<1>11. \A i \in DOMAIN s : s[i] \in evt /\ r \in Values(s[i], "r")  BY <1>2, <1>4 DEF Matching
<1>12. s \in Seq(All(scene))
  <2>1. s \in [1..Len(s) -> All(scene)]
    <3>1. s \in [1..Len(s) -> evt]  BY <1>4, LenProperties
    <3>. QED  BY <1>1, <3>1
  <2>. QED  BY <1>4, <2>1, SeqDef
<1>. QED  BY <1>10, <1>11, <1>12 DEF Range

LEMMA ResolveTurn ==
    ASSUME Shape, NEW c \in Conns, Task(c), Resolve(c)
    PROVE  Turn(c) /\ Task(c)'
<1>1. /\ Calm /\ evt' = evt /\ own' = own /\ h[c].pc = "resolve" /\ h[c].pc \notin Cleaning
      /\ h[c].pos \in DOMAIN scene.script[c] /\ Ev(c).kind = 72 /\ Name(c) # None
  BY DEF Resolve, Calm, Cleaning, Task, Removing
<1>2. Events(c) /\ Frees(c)  BY <1>1, SameStores
<1>3. CASE Refuse(c)
  <2>1. End(c) /\ Acks(c)  BY <1>3 DEF Refuse, Acks
  <2>. QED  BY <1>1, <1>2, <2>1, EndTurn
<1>4. CASE Then(c, [h[c] EXCEPT !.pc = "gather", !.had = Found(evt, Resource(FirstTag(Ev(c), "r")))])
  <2> DEFINE had == Found(evt, Resource(FirstTag(Ev(c), "r")))
             next == [h[c] EXCEPT !.pc = "gather", !.had = had]
  <2>1. had \subseteq evt /\ had \subseteq All(scene)  BY DEF Found, Shape
  <2>2. h' = [h EXCEPT ![c] = next] /\ oks' = oks  BY <1>4 DEF Then
  <2> HIDE DEF had
  <2>3. /\ next \in Handler(scene) /\ next.pc = "gather" /\ next.pos = h[c].pos /\ next.old = h[c].old
        /\ next.todo = h[c].todo /\ next.had = had
    BY <2>1, HandlerIs DEF Handler, Pcs
  <2> HIDE DEF next
  <2>4. h' \in [Conns -> Handler(scene)] /\ h'[c] = next /\ \A d \in Conns : d # c => h'[d] = h[d]  BY <2>2, <2>3, ThenIs
  <2>5. Acks(c) /\ Recalls(c)  BY <2>1, <2>2, <2>3, <2>4 DEF Acks, Recalls
  <2>6. Finds(c)'  BY <2>3, <2>4 DEF Finds, Cleaning
  <2>7. "gather" \notin Writing \cup Cleaning  BY DEF Writing, Cleaning
  <2>. QED  BY <1>1, <1>2, <2>3, <2>4, <2>5, <2>6, <2>7, GoTurn
<1>. QED  BY <1>3, <1>4 DEF Resolve

LEMMA GatherTurn ==
    ASSUME Shape, NEW c \in Conns, Task(c), Gather(c)
    PROVE  Turn(c) /\ Task(c)'
<1>1. /\ Calm /\ evt' = evt /\ own' = own /\ h[c].pc = "gather" /\ h[c].pc \notin Cleaning
      /\ h[c].pos \in DOMAIN scene.script[c] /\ Ev(c).kind = 72 /\ Name(c) # None
  <2>1. h[c].pc = "gather" /\ evt' = evt /\ own' = own  BY DEF Gather
  <2>2. Calm  BY DEF Gather, Fault, Calm
  <2>. QED  BY <2>1, <2>2 DEF Cleaning, Task, Removing
<1>2. Events(c) /\ Frees(c)  BY <1>1, SameStores
<1>3. CASE Refuse(c)
  <2>1. End(c) /\ Acks(c)  BY <1>3 DEF Refuse, Acks
  <2>. QED  BY <1>1, <1>2, <2>1, EndTurn
<1>4. ASSUME NEW s \in QueryEvents(evt, Part(Name(c))), s = <<>>, Goto(c, "release")
      PROVE  Turn(c) /\ Task(c)'
  <2>1. "release" \in Pcs \ {"idle", "clean", "erase"} /\ "release" \notin Cleaning \cup Writing
        /\ "release" \notin {"verify", "bind", "put", "refs", "drop"}
    BY DEF Pcs, Cleaning, Writing
  <2>. QED  BY <1>1, <1>4, <2>1, GotoTurn
<1>5. ASSUME NEW s \in QueryEvents(evt, Part(Name(c))), s # <<>>,
             Then(c, [h[c] EXCEPT !.pc = "erase", !.todo = s, !.pass = @ + 1, !.old = s,
                                  !.refs = @ \cup UNION {Refs(e) : e \in Range(s)}])
      PROVE  Turn(c) /\ Task(c)'
  <2> DEFINE refs == h[c].refs \cup UNION {Refs(e) : e \in Range(s)}
             pass == h[c].pass + 1
             next == [h[c] EXCEPT !.pc = "erase", !.todo = s, !.pass = pass, !.old = s, !.refs = refs]
  <2>1. s \in Seq(All(scene)) /\ Range(s) \subseteq evt  BY BatchIs
  <2>2. refs \subseteq UNION {Refs(e) : e \in All(scene)} /\ pass \in Nat
    <3>1. Range(s) \subseteq All(scene)  BY <2>1 DEF Shape
    <3>2. h[c] \in Handler(scene)  BY HandlerIs
    <3>3. h[c].refs \subseteq UNION {Refs(e) : e \in All(scene)} /\ h[c].pass \in Nat  BY <3>2 DEF Handler
    <3>. QED  BY <3>1, <3>3
  <2>3. h' = [h EXCEPT ![c] = next] /\ oks' = oks  BY <1>5, HandlerIs DEF Then, Handler
  <2> HIDE DEF refs, pass
  <2>4. /\ next \in Handler(scene) /\ next.pc = "erase" /\ next.pos = h[c].pos /\ next.old = s
        /\ next.todo = s /\ next.had = h[c].had
    BY <2>1, <2>2, HandlerIs DEF Handler, Pcs
  <2> HIDE DEF next
  <2>5. h' \in [Conns -> Handler(scene)] /\ h'[c] = next /\ \A d \in Conns : d # c => h'[d] = h[d]  BY <2>3, <2>4, ThenIs
  <2>6. Acks(c) /\ Recalls(c)  BY <2>1, <2>3, <2>4, <2>5 DEF Acks, Recalls
  <2>7. Finds(c)'  BY <2>4, <2>5 DEF Finds, Cleaning
  <2>8. "erase" \notin Writing \cup Cleaning  BY DEF Writing, Cleaning
  <2>. QED  BY <1>1, <1>2, <1>5, <2>4, <2>5, <2>6, <2>7, <2>8, GoTurn
<1>. QED  BY <1>3, <1>4, <1>5 DEF Gather, Part, Name

LEMMA EraseTurn ==
    ASSUME Shape, NEW c \in Conns, Task(c), Erase(c)
    PROVE  Turn(c) /\ Task(c)'
<1>1. /\ Calm /\ own' = own /\ h[c].pc = "erase" /\ h[c].pc \notin Cleaning
      /\ h[c].pos \in DOMAIN scene.script[c] /\ Ev(c).kind = 72 /\ Name(c) # None /\ h[c].todo # <<>>
  BY DEF Erase, Fault, Calm, Cleaning, Task, Removing
<1> DEFINE rest == Tail(h[c].todo)
           pc == IF rest # <<>> THEN "erase" ELSE IF Again(c) THEN "gather" ELSE "release"
           next == [h[c] EXCEPT !.todo = rest, !.pc = pc]
<1>2. rest \in Seq(All(scene)) /\ Range(rest) \subseteq Range(h[c].todo) /\ h[c].todo[1] \in Range(h[c].todo)
  BY <1>1, HandlerIs, TailIs
<1>3. /\ pc \in Pcs \ {"idle", "clean", "refs", "drop", "verify", "bind", "put"} /\ (pc = "erase" => rest # <<>>)
      /\ pc \in Removing /\ pc \notin Cleaning \cup Writing
  BY DEF Pcs, Removing, Cleaning, Writing
<1>4. h' = [h EXCEPT ![c] = next] /\ oks' = oks  BY DEF Erase, Then
<1> HIDE DEF rest, pc
<1>5. /\ next \in Handler(scene) /\ next.pc = pc /\ next.pos = h[c].pos /\ next.old = h[c].old
      /\ next.todo = rest /\ next.had = h[c].had
  BY <1>2, <1>3, HandlerIs DEF Handler
<1> HIDE DEF next
<1>6. h' \in [Conns -> Handler(scene)] /\ h'[c] = next /\ \A d \in Conns : d # c => h'[d] = h[d]  BY <1>4, <1>5, ThenIs
<1>7. Events(c)
  <2>1. evt' = evt \/ evt' = {e \in evt : e.id # h[c].todo[1].id}  BY DEF Erase
  <2>2. Range(h[c].todo) \subseteq All(scene)
    <3>1. h[c].todo \in Seq(All(scene))  BY HandlerIs
    <3>2. DOMAIN h[c].todo = 1..Len(h[c].todo)  BY <3>1, LenProperties
    <3>. QED  BY <3>1, <3>2, ElementOfSeq DEF Range
  <2>3. ASSUME NEW x \in evt, x \notin evt' PROVE x = h[c].todo[1]
    <3>1. x.id = h[c].todo[1].id  BY <2>1, <2>3
    <3>2. x \in All(scene) /\ h[c].todo[1] \in All(scene)  BY <1>2, <2>2 DEF Shape
    <3>. QED  BY <3>1, <3>2 DEF Shape, Regular
  <2>. QED  BY <1>1, <2>1, <2>3 DEF Events
<1>8. Frees(c)  BY <1>1 DEF Frees
<1>9. Acks(c) /\ Recalls(c)  BY <1>2, <1>3, <1>4, <1>5, <1>6 DEF Acks, Recalls
<1>10. Finds(c)'  BY <1>3, <1>5, <1>6 DEF Finds
<1>. QED  BY <1>1, <1>3, <1>5, <1>6, <1>7, <1>8, <1>9, <1>10, GoTurn

LEMMA ReleaseTurn ==
    ASSUME Shape, NEW c \in Conns, Task(c), Release(c)
    PROVE  Turn(c) /\ Task(c)'
<1>1. /\ Calm /\ evt' = evt /\ h[c].pc = "release" /\ h[c].pc \notin Cleaning
      /\ h[c].pos \in DOMAIN scene.script[c] /\ Ev(c).kind = 72 /\ Name(c) # None
  <2>1. h[c].pc = "release" /\ evt' = evt  BY DEF Release
  <2>2. Calm  BY DEF Release, Fault, Calm
  <2>. QED  BY <2>1, <2>2 DEF Cleaning, Task, Removing
<1>2. CASE h[c].refs = {}
  <2>1. Goto(c, "put") /\ own' = own  BY <1>2 DEF Release
  <2>2. "put" \in Pcs \ {"idle", "clean", "erase"} /\ "put" \notin Cleaning \cup Writing \cup Removing
    BY DEF Pcs, Cleaning, Writing, Removing
  <2>. QED  BY <1>1, <2>1, <2>2, GotoTurn
<1>3. CASE h[c].refs # {}
  <2>1. PICK ref \in h[c].refs : Then(c, [h[c] EXCEPT !.refs = @ \ {ref}]) /\ (own' = own \ {ref} \/ own' = own)
    BY <1>3 DEF Release
  <2> DEFINE refs == h[c].refs \ {ref}
             next == [h[c] EXCEPT !.refs = refs]
  <2>2. refs \subseteq UNION {Refs(e) : e \in All(scene)}  BY HandlerIs DEF Handler
  <2>3. h' = [h EXCEPT ![c] = next] /\ oks' = oks  BY <2>1, HandlerIs DEF Then, Handler
  <2> HIDE DEF refs
  <2>4. /\ next \in Handler(scene) /\ next.pc = "release" /\ next.pos = h[c].pos /\ next.old = h[c].old
        /\ next.todo = h[c].todo /\ next.had = h[c].had
    BY <1>1, <2>2, HandlerIs DEF Handler
  <2> HIDE DEF next
  <2>5. h' \in [Conns -> Handler(scene)] /\ h'[c] = next /\ \A d \in Conns : d # c => h'[d] = h[d]  BY <2>3, <2>4, ThenIs
  <2>6. Events(c)  BY <1>1 DEF Events
  <2>7. Frees(c)  BY <1>1, <2>1 DEF Frees
  <2>8. Acks(c) /\ Recalls(c)  BY <2>3, <2>4, <2>5 DEF Acks, Recalls
  <2>9. Finds(c)'  BY <2>4, <2>5 DEF Finds, Cleaning
  <2>10. "release" \notin Writing \cup Cleaning  BY DEF Writing, Cleaning
  <2>. QED  BY <1>1, <2>4, <2>5, <2>6, <2>7, <2>8, <2>9, <2>10, GoTurn
<1>. QED  BY <1>2, <1>3

LEMMA StepTurn ==
    ASSUME Basics, NEW c \in Conns, Step(c)
    PROVE  Turn(c) /\ Task(c)'
<1>1. Shape /\ Task(c)  BY DEF Basics
<1>. QED  BY <1>1, AdmitTurn, QueryTurn, VerifyTurn, BindTurn, PutTurn, CleanTurn, ForgetTurn, LookTurn, DropTurn,
             ResolveTurn, GatherTurn, EraseTurn, ReleaseTurn DEF Step

LEMMA TaskStays ==
    ASSUME NEW d, Task(d), h'[d] = h[d], scene' = scene
    PROVE  Task(d)'
<1>1. Ev(d)' = Ev(d) /\ Name(d)' = Name(d) /\ OldGraph(d)' = OldGraph(d)  BY DEF Ev, Name, OldGraph
<1>2. Finds(d)' <=> Finds(d)  BY <1>1 DEF Finds, Dropped
<1>. QED  BY <1>1, <1>2 DEF Task

LEMMA StepBasics ==
    ASSUME Basics, NEW c \in Conns, Step(c)
    PROVE  Basics'
<1>1. Turn(c) /\ Task(c)'  BY StepTurn
<1>2. Frame(c) /\ Events(c)  BY <1>1 DEF Turn
<1>3. scene' = scene /\ h' \in [Conns -> Handler(scene)]  BY <1>2 DEF Frame
<1>4. evt' \subseteq All(scene)
  <2>1. evt \subseteq All(scene)  BY DEF Basics, Shape
  <2>2. h[c].pc = "put" => Ev(c) \in All(scene)  BY EvIs DEF Basics, Task
  <2>. QED  BY <1>2, <2>1, <2>2 DEF Events
<1>5. Shape'  BY <1>2, <1>3, <1>4 DEF Basics, Shape, Frame
<1>6. ASSUME NEW d \in Conns PROVE Task(d)'
  <2>1. CASE d = c  BY <1>1, <2>1
  <2>2. CASE d # c
    <3>1. h'[d] = h[d] /\ Task(d)  BY <1>2, <2>2 DEF Frame, Basics
    <3>. QED  BY <1>3, <3>1, TaskStays
  <2>. QED  BY <2>1, <2>2
<1>. QED  BY <1>5, <1>6 DEF Basics

\* Uploads and claims leave the handlers alone, and no handler survives a restart.
\* What a restart leaves of a handler.
Stopped(c) ==
    /\ h'[c].pc = "idle" /\ h'[c].pos >= h[c].pos
    /\ h[c].pc = "idle" => h'[c] = h[c]
    /\ h[c].pc # "idle" => h'[c].pos = h[c].pos + 1
    /\ h[c].pc # "idle" => Range(h'[c].old) = {} /\ Range(h'[c].todo) = {} /\ h'[c].had = {}

LEMMA RestartKeeps ==
    ASSUME Shape, Restart
    PROVE  /\ scene' = scene /\ moves' = moves /\ evt' = evt /\ own' = own /\ oks' = oks /\ faults' = faults
           /\ restarts' \in Nat /\ restarts' # 0
<1>1. restarts' = restarts + 1  BY DEF Restart
<1>2. restarts' \in Nat /\ restarts' # 0  BY <1>1 DEF Shape
<1>. QED  BY <1>2 DEF Restart

LEMMA RestartIs ==
    ASSUME Shape, Restart
    PROVE  h' \in [Conns -> Handler(scene)] /\ \A c \in Conns : Stopped(c)
<1> DEFINE next(c) == IF h[c].pc = "idle" THEN h[c] ELSE [AtRest EXCEPT !.pos = h[c].pos + 1]
<1>3. h' = [c \in Conns |-> next(c)]  BY DEF Restart
<1>4. ASSUME NEW c \in Conns
      PROVE  /\ next(c) \in Handler(scene) /\ next(c).pc = "idle" /\ next(c).pos >= h[c].pos
             /\ h[c].pc = "idle" => next(c) = h[c]
             /\ h[c].pc # "idle" => next(c).pos = h[c].pos + 1 /\ Range(next(c).old) = {}
                                     /\ Range(next(c).todo) = {} /\ next(c).had = {}
  <2>1. h[c] \in Handler(scene) /\ h[c].pos \in Nat \ {0}  BY HandlerIs
  <2>2. CASE h[c].pc = "idle"  BY <2>1, <2>2
  <2>3. CASE h[c].pc # "idle"
    <3> DEFINE z == <<>>  p == h[c].pos + 1  n == {}  o == 0  a == next(c)
    <3>1. AtRest = [pc |-> "idle", pos |-> 1, old |-> z, todo |-> z, refs |-> n, pass |-> o, had |-> n]  BY DEF AtRest
    <3>2. z \in Seq(All(scene)) /\ z = <<>> /\ n = {} /\ p \in Nat \ {0} /\ p >= h[c].pos /\ o \in Nat  BY <2>1
    <3>3. a = [AtRest EXCEPT !.pos = p]  BY <2>3
    <3> HIDE DEF z, p, n, o, a
    <3>4. a = [pc |-> "idle", pos |-> p, old |-> z, todo |-> z, refs |-> n, pass |-> o, had |-> n]  BY <3>1, <3>3
    <3>5. n \subseteq All(scene) /\ n \subseteq UNION {Refs(e) : e \in All(scene)} /\ "idle" \in Pcs  BY <3>2 DEF Pcs
    <3>6. a \in Handler(scene)  BY <3>2, <3>4, <3>5 DEF Handler
    <3>7. a.pc = "idle" /\ a.pos = p /\ Range(a.old) = {} /\ Range(a.todo) = {} /\ a.had = {}
      BY <3>2, <3>4, NothingIn
    <3>. QED  BY <2>3, <3>2, <3>6, <3>7 DEF a, p
  <2>. QED  BY <2>2, <2>3
<1> HIDE DEF next
<1>5. h' \in [Conns -> Handler(scene)] /\ \A c \in Conns : h'[c] = next(c)  BY <1>3, <1>4
<1>. QED  BY <1>4, <1>5 DEF Stopped

\* The DAGs that came in since.
Came(s, m) == {<<x[2], x[3]>> : x \in s.moves \ m}

LEMMA MoveIs ==
    ASSUME Upload \/ Claim
    PROVE  /\ scene' = scene /\ evt' = evt /\ h' = h /\ oks' = oks /\ faults' = faults /\ restarts' = restarts
           /\ moves' \subseteq moves /\ own \subseteq own'
           /\ \A x \in own' : x \in own \/ \E m \in moves : m \notin moves' /\ x = <<m[2], m[3]>>
<1>1. CASE Upload
  <2>1. PICK m \in moves : /\ moves' = moves \ {m} /\ (own' = own \cup {<<m[2], m[3]>>} \/ own' = own)
                           /\ UNCHANGED <<evt, blocked, scene, h, oks, faults, restarts>>
    BY <1>1 DEF Upload
  <2>. QED  BY <2>1
<1>2. CASE Claim
  <2>1. PICK m \in moves : /\ moves' = moves \ {m} /\ (own' = own \cup {<<m[2], m[3]>>} \/ own' = own)
                           /\ UNCHANGED <<evt, stored, cached, blocked, scene, h, oks, faults, restarts>>
    BY <1>2 DEF Claim
  <2>. QED  BY <2>1
<1>. QED  BY <1>1, <1>2

LEMMA NextBasics ==
    ASSUME Basics, [Next]_vars
    PROVE  Basics'
<1>1. CASE \E c \in Conns : Step(c)  BY <1>1, StepBasics
<1>2. CASE Upload \/ Claim
  <2>1. scene' = scene /\ evt' = evt /\ h' = h /\ faults' = faults /\ restarts' = restarts /\ moves' \subseteq moves
    BY <1>2, MoveIs
  <2>2. Shape'  BY <2>1 DEF Basics, Shape
  <2>. QED  BY <2>1, <2>2, TaskStays DEF Basics
<1>3. CASE Restart
  <2>1. Shape  BY DEF Basics
  <2>2. scene' = scene /\ moves' = moves /\ evt' = evt /\ faults' = faults /\ restarts' \in Nat
    BY <1>3, <2>1, RestartKeeps
  <2>3. h' \in [Conns -> Handler(scene)] /\ \A c \in Conns : Stopped(c)  BY <1>3, <2>1, RestartIs
  <2>4. \A c \in Conns : h'[c].pc = "idle"  BY <2>3 DEF Stopped
  <2>5. Shape'  BY <2>1, <2>2, <2>3 DEF Shape
  <2>. QED  BY <2>4, <2>5 DEF Basics, Task
<1>4. CASE UNCHANGED vars
  <2>1. scene' = scene /\ evt' = evt /\ h' = h /\ faults' = faults /\ restarts' = restarts /\ moves' = moves
    BY <1>4 DEF vars
  <2>2. Shape'  BY <2>1 DEF Basics, Shape
  <2>. QED  BY <2>1, <2>2, TaskStays DEF Basics
<1>. QED  BY <1>1, <1>2, <1>3, <1>4 DEF Next

LEMMA InitIs ==
    ASSUME Init
    PROVE  /\ scene \in Scenes /\ evt = scene.evt /\ own = scene.own /\ moves = scene.moves
           /\ oks = {} /\ faults = 0 /\ restarts = 0
           /\ \A c \in Conns : /\ h[c].pc = "idle" /\ h[c].pos = 1 /\ Range(h[c].old) = {} /\ Range(h[c].todo) = {}
                                /\ h[c].had = {}
<1>1. h = [c \in Conns |-> AtRest]  BY DEF Init
<1>2. AtRest.pc = "idle" /\ AtRest.pos = 1 /\ AtRest.old = <<>> /\ AtRest.todo = <<>> /\ AtRest.had = {}
  BY DEF AtRest
<1>3. \A c \in Conns : h[c] = AtRest  BY <1>1
<1>. QED  BY <1>2, <1>3, NothingIn DEF Init

LEMMA InitBasics ==
    ASSUME \A s \in Scenes : Regular(s) /\ Orderly(s), Init
    PROVE  Basics
<1>1. /\ scene \in Scenes /\ evt = scene.evt /\ moves = scene.moves /\ faults = 0 /\ restarts = 0
      /\ \A c \in Conns : h[c].pc = "idle"
  BY InitIs
<1>2. AtRest \in Handler(scene)
  <2> DEFINE z == <<>>  p == 1  n == {}  o == 0
  <2>1. AtRest = [pc |-> "idle", pos |-> p, old |-> z, todo |-> z, refs |-> n, pass |-> o, had |-> n]  BY DEF AtRest
  <2>2. z \in Seq(All(scene)) /\ n = {} /\ p \in Nat \ {0} /\ o \in Nat  OBVIOUS
  <2> HIDE DEF z, p, n, o
  <2>3. n \subseteq All(scene) /\ n \subseteq UNION {Refs(e) : e \in All(scene)} /\ "idle" \in Pcs  BY <2>2 DEF Pcs
  <2>. QED  BY <2>1, <2>2, <2>3 DEF Handler
<1>3. h \in [Conns -> Handler(scene)]  BY <1>2 DEF Init
<1>4. Shape  BY <1>1, <1>3 DEF Shape, All
<1>5. \A c \in Conns : Task(c)  BY <1>1 DEF Task
<1>. QED  BY <1>4, <1>5 DEF Basics

LEMMA AlwaysBasics ==
    ASSUME \A s \in Scenes : Regular(s) /\ Orderly(s)
    PROVE  Spec => []Basics
<1>1. Init => Basics  BY InitBasics
<1>2. Basics /\ [Next]_vars => Basics'  BY NextBasics
<1>. QED  BY <1>1, <1>2, PTL DEF Spec

\* The first answer of the store and a sort of all answers name the same
\* permission event.
THEOREM AuthorityIsOne ==
    ASSUME \A s \in Scenes : Regular(s) /\ Orderly(s)
    PROVE  Spec => []OneAuthority
<1>1. Basics => OneAuthority
  <2>. SUFFICES ASSUME Basics, NEW r \in DOMAIN Repo, NEW s \in Permissions(evt, r),
                       NEW q \in QueryEvents(evt, [Tagged(OfKind(31415), "r", r) EXCEPT !.limit = 1]), s # <<>>
                PROVE  q = <<Latest(s)>>
    BY DEF OneAuthority
  <2>1. Timed(evt)  BY TimedEvents DEF Basics
  <2>2. q \in QueryEvents(evt, UpTo(31415, "r", r, 1))  BY DEF UpTo
  <2>. QED  BY <2>1, <2>2, OneAnswer
<1>2. Spec => []Basics  BY AlwaysBasics
<1>. QED  BY <1>1, <1>2, PTL

-----------------------------------------------------------------------------
(* Which steps lead where *)

\* The handler of a permission event.
Writes(c) ==
    /\ h'[c].pc = "verify" => /\ h[c].pc = "query" /\ evt' = evt
                              /\ h'[c].old \in Permissions(evt, Name(c))
    /\ h'[c].pc = "bind" => h[c].pc = "verify" /\ evt' = evt /\ h'[c].old = h[c].old
    /\ h'[c].pc = "put" /\ Ev(c).kind = 31415 =>
          h[c].pc \in {"verify", "bind"} /\ evt' = evt /\ h'[c].old = h[c].old
    /\ h'[c].pc = "clean" =>
          \/ h[c].pc = "put" /\ evt' = evt \cup {Ev(c)} /\ h'[c].todo = h[c].old
          \/ /\ h[c].pc = "clean" /\ h[c].todo # <<>> /\ h'[c].todo = Tail(h[c].todo)
             /\ evt' = {e \in evt : ~Outdated(c, e)} \/ faults' = faults + 1
    /\ h'[c].pc = "orphan" =>
          evt' = evt /\ (h[c].pc \in {"orphan", "refs", "drop"} \/ (h[c].pc = "clean" /\ h[c].todo = <<>>))
    /\ h'[c].pc \in {"refs", "drop"} => evt' = evt /\ h[c].pc \in {"orphan", "refs"}
    /\ h[c].pc \in Cleaning /\ h'[c].pc = "idle" => evt' = evt /\ h[c].pc = "orphan"

Kept(c) == h'[c].had = h[c].had
Same(c) == Kept(c) /\ h'[c].refs = h[c].refs /\ h'[c].pass = h[c].pass

GivesUp(c) ==
    \E ref \in h[c].refs : h'[c].refs = h[c].refs \ {ref} /\ (own' = own \ {ref} \/ faults' = faults + 1)

\* The handler of a cascade.
Sweeps(c) ==
    /\ h'[c].pc = "gather" =>
          \/ /\ h[c].pc = "resolve" /\ evt' = evt
             /\ h'[c].had = Found(evt, Resource(Name(c)))
          \/ h[c].pc = "erase" /\ Same(c)
    /\ h'[c].pc = "erase" =>
          \/ /\ h[c].pc = "gather" /\ evt' = evt /\ Kept(c)
             /\ h'[c].todo \in QueryEvents(evt, Part(Name(c))) /\ h'[c].old = h'[c].todo
             /\ h'[c].refs = h[c].refs \cup UNION {Refs(e) : e \in Range(h'[c].todo)}
          \/ /\ h[c].pc = "erase" /\ Same(c) /\ h'[c].old = h[c].old /\ h'[c].todo = Tail(h[c].todo)
    /\ h'[c].pc = "release" =>
          \/ h[c].pc = "gather" /\ evt' = evt /\ Same(c) /\ <<>> \in QueryEvents(evt, Part(Name(c)))
          \/ h[c].pc = "erase" /\ Same(c) /\ Tail(h[c].todo) = <<>> /\ ~Again(c)
          \/ /\ h[c].pc = "release" /\ evt' = evt /\ Kept(c) /\ h'[c].pass = h[c].pass
             /\ GivesUp(c)
    /\ h'[c].pc = "put" /\ Ev(c).kind = 72 => h[c].pc = "release" /\ evt' = evt /\ Same(c) /\ h[c].refs = {}
    /\ h[c].pc = "erase" /\ h'[c].pc # "idle" =>
          evt' = {e \in evt : e.id # h[c].todo[1].id} \/ faults' = faults + 1
    /\ h[c].pc \in {"gather", "erase"} => own' = own

LEMMA ThenFields ==
    ASSUME Shape, NEW c \in Conns, NEW next, Then(c, next)
    PROVE  h'[c] = next
BY DEF Then, Shape

LEMMA GotoFields ==
    ASSUME Shape, NEW c \in Conns, NEW pc \in Pcs, Goto(c, pc)
    PROVE  h'[c].pc = pc /\ h'[c].old = h[c].old /\ h'[c].todo = h[c].todo /\ Same(c)
BY GotoIs DEF Same, Kept

LEMMA EndFields ==
    ASSUME Shape, NEW c \in Conns, End(c)
    PROVE  h'[c].pc = "idle"
BY EndIs

LEMMA EndWays ==
    ASSUME Shape, NEW c \in Conns, End(c), h[c].pc \notin Cleaning, own' = own
    PROVE  Writes(c) /\ Sweeps(c)
<1>1. h'[c].pc = "idle"  BY EndFields
<1>. QED  BY <1>1 DEF Writes, Sweeps, Cleaning

LEMMA AdmitWays ==
    ASSUME Shape, NEW c \in Conns, Admit(c)
    PROVE  Writes(c) /\ Sweeps(c)
<1>1. h[c].pc = "idle" /\ own' = own  BY DEF Admit
<1>2. CASE Refuse(c)  BY <1>1, <1>2, EndWays DEF Refuse, Cleaning
<1>3. ASSUME NEW pc \in {"query", "resolve"}, Goto(c, pc) PROVE Writes(c) /\ Sweeps(c)
  <2>1. pc \in Pcs  BY DEF Pcs
  <2>2. h'[c].pc = pc  BY <1>3, <2>1, GotoFields
  <2>. QED  BY <1>1, <2>2 DEF Writes, Sweeps, Cleaning
<1>4. ASSUME Goto(c, "put"), Ev(c).kind \notin {31415, 72} PROVE Writes(c) /\ Sweeps(c)
  <2>1. "put" \in Pcs  BY DEF Pcs
  <2>2. h'[c].pc = "put"  BY <1>4, <2>1, GotoFields
  <2>. QED  BY <1>1, <1>4, <2>2 DEF Writes, Sweeps, Cleaning
<1>5. \/ Refuse(c) \/ Goto(c, "query") \/ Goto(c, "resolve") \/ (Ev(c).kind \notin {31415, 72} /\ Goto(c, "put"))
  BY DEF Admit
<1>. QED  BY <1>2, <1>3, <1>4, <1>5

LEMMA QueryWays ==
    ASSUME Shape, NEW c \in Conns, Query(c)
    PROVE  Writes(c) /\ Sweeps(c)
<1>1. h[c].pc = "query" /\ evt' = evt  BY DEF Query
<1>2. PICK old \in Permissions(evt, Name(c)) : Then(c, [h[c] EXCEPT !.pc = "verify", !.old = old])
  BY DEF Query, Name
<1>3. h'[c] = [h[c] EXCEPT !.pc = "verify", !.old = old]  BY <1>2, ThenFields
<1>4. h'[c].pc = "verify" /\ h'[c].old = old  BY <1>3, HandlerIs DEF Handler
<1>. QED  BY <1>1, <1>2, <1>4 DEF Writes, Sweeps, Cleaning

LEMMA VerifyWays ==
    ASSUME Shape, NEW c \in Conns, Task(c), Verify(c)
    PROVE  Writes(c) /\ Sweeps(c)
<1>1. h[c].pc = "verify" /\ evt' = evt /\ own' = own  BY DEF Verify
<1>2. CASE Refuse(c)  BY <1>1, <1>2, EndWays DEF Refuse, Cleaning
<1>3. Ev(c).kind = 31415  BY <1>1 DEF Task, Writing
<1>4. ASSUME NEW pc \in {"put", "bind"}, Goto(c, pc) PROVE Writes(c) /\ Sweeps(c)
  <2>1. pc \in Pcs  BY DEF Pcs
  <2>2. h'[c].pc = pc /\ h'[c].old = h[c].old  BY <1>4, <2>1, GotoFields
  <2>. QED  BY <1>1, <1>3, <2>2 DEF Writes, Sweeps, Cleaning
<1>. QED  BY <1>2, <1>4 DEF Verify

LEMMA BindWays ==
    ASSUME Shape, NEW c \in Conns, Task(c), Bind(c)
    PROVE  Writes(c) /\ Sweeps(c)
<1>1. h[c].pc = "bind" /\ evt' = evt /\ own' = own  BY DEF Bind
<1>2. CASE Refuse(c)  BY <1>1, <1>2, EndWays DEF Refuse, Cleaning
<1>3. Ev(c).kind = 31415  BY <1>1 DEF Task, Writing
<1>4. CASE Goto(c, "put")
  <2>1. "put" \in Pcs  BY DEF Pcs
  <2>2. h'[c].pc = "put" /\ h'[c].old = h[c].old  BY <1>4, <2>1, GotoFields
  <2>. QED  BY <1>1, <1>3, <2>2 DEF Writes, Sweeps, Cleaning
<1>. QED  BY <1>2, <1>4 DEF Bind

LEMMA PutWays ==
    ASSUME Shape, NEW c \in Conns, Put(c)
    PROVE  Writes(c) /\ Sweeps(c)
<1>1. h[c].pc = "put" /\ own' = own  BY DEF Put
<1>2. CASE End(c)  BY <1>1, <1>2, EndWays DEF Cleaning
<1>3. CASE evt' = evt \cup {Ev(c)} /\ Then(c, [h[c] EXCEPT !.pc = "clean", !.todo = h[c].old])
  <2>1. h'[c] = [h[c] EXCEPT !.pc = "clean", !.todo = h[c].old]  BY <1>3, ThenFields
  <2>2. h'[c].pc = "clean" /\ h'[c].todo = h[c].old  BY <2>1, HandlerIs DEF Handler
  <2>. QED  BY <1>1, <1>3, <2>2 DEF Writes, Sweeps, Cleaning
<1>. QED  BY <1>2, <1>3 DEF Put, Ok, Refuse

LEMMA CleanWays ==
    ASSUME Shape, NEW c \in Conns, Clean(c)
    PROVE  Writes(c) /\ Sweeps(c)
<1>1. h[c].pc = "clean"  BY DEF Clean
<1>2. CASE h[c].todo = <<>>
  <2>1. Goto(c, "orphan") /\ evt' = evt  BY <1>2 DEF Clean
  <2>2. "orphan" \in Pcs  BY DEF Pcs
  <2>3. h'[c].pc = "orphan"  BY <2>1, <2>2, GotoFields
  <2>. QED  BY <1>1, <1>2, <2>1, <2>3 DEF Writes, Sweeps
<1>3. CASE h[c].todo # <<>>
  <2>1. Then(c, [h[c] EXCEPT !.todo = Tail(h[c].todo)])  BY <1>3 DEF Clean
  <2>2. evt' = {e \in evt : ~Outdated(c, e)} \/ faults' = faults + 1  BY <1>3 DEF Clean, Fault
  <2>3. h'[c] = [h[c] EXCEPT !.todo = Tail(h[c].todo)]  BY <2>1, ThenFields
  <2>4. h'[c].pc = "clean" /\ h'[c].todo = Tail(h[c].todo)  BY <1>1, <2>3, HandlerIs DEF Handler
  <2>. QED  BY <1>1, <1>3, <2>2, <2>4 DEF Writes, Sweeps
<1>. QED  BY <1>2, <1>3

LEMMA OrphanWays ==
    ASSUME Shape, NEW c \in Conns, Forget(c) \/ LookForRefs(c) \/ Drop(c)
    PROVE  Writes(c) /\ Sweeps(c)
<1>1. evt' = evt /\ h[c].pc \in {"orphan", "refs", "drop"}  BY DEF Forget, LookForRefs, Drop
<1>2. CASE h[c].pc = "orphan" /\ End(c)
  <2>1. h'[c].pc = "idle"  BY <1>2, EndFields
  <2>. QED  BY <1>1, <1>2, <2>1 DEF Writes, Sweeps
<1>3. CASE \/ Then(c, [h[c] EXCEPT !.pc = "orphan", !.old = Tail(h[c].old)])
           \/ h[c].pc = "orphan" /\ Then(c, [h[c] EXCEPT !.old = Tail(h[c].old)])
  <2>1. \/ h'[c] = [h[c] EXCEPT !.pc = "orphan", !.old = Tail(h[c].old)]
        \/ h[c].pc = "orphan" /\ h'[c] = [h[c] EXCEPT !.old = Tail(h[c].old)]
    BY <1>3, ThenFields
  <2>2. h'[c].pc = "orphan"  BY <2>1, HandlerIs DEF Handler
  <2>. QED  BY <1>1, <2>2 DEF Writes, Sweeps
<1>4. ASSUME NEW pc \in {"refs", "drop"}, Goto(c, pc), h[c].pc \in {"orphan", "refs"}
      PROVE  Writes(c) /\ Sweeps(c)
  <2>1. pc \in Pcs  BY DEF Pcs
  <2>2. h'[c].pc = pc  BY <1>4, <2>1, GotoFields
  <2>. QED  BY <1>1, <1>4, <2>2 DEF Writes, Sweeps
<1>5. CASE Forget(c)  BY <1>2, <1>3, <1>4, <1>5 DEF Forget, Ok
<1>6. CASE LookForRefs(c)  BY <1>3, <1>4, <1>6 DEF LookForRefs
<1>7. CASE Drop(c)  BY <1>3, <1>7 DEF Drop
<1>. QED  BY <1>5, <1>6, <1>7

LEMMA ResolveWays ==
    ASSUME Shape, NEW c \in Conns, Resolve(c)
    PROVE  Writes(c) /\ Sweeps(c)
<1>1. h[c].pc = "resolve" /\ evt' = evt /\ own' = own  BY DEF Resolve
<1>2. CASE Refuse(c)  BY <1>1, <1>2, EndWays DEF Refuse, Cleaning
<1>3. CASE Then(c, [h[c] EXCEPT !.pc = "gather", !.had = Found(evt, Resource(FirstTag(Ev(c), "r")))])
  <2> DEFINE had == Found(evt, Resource(FirstTag(Ev(c), "r")))
  <2> HIDE DEF had
  <2>1. h'[c] = [h[c] EXCEPT !.pc = "gather", !.had = had]  BY <1>3, ThenFields DEF had
  <2>2. h'[c].pc = "gather" /\ h'[c].had = had  BY <2>1, HandlerIs DEF Handler
  <2>. QED  BY <1>1, <2>2 DEF Writes, Sweeps, Cleaning, had, Name
<1>. QED  BY <1>2, <1>3 DEF Resolve

LEMMA GatherWays ==
    ASSUME Shape, NEW c \in Conns, Gather(c)
    PROVE  Writes(c) /\ Sweeps(c)
<1>1. h[c].pc = "gather" /\ evt' = evt /\ own' = own  BY DEF Gather
<1>2. CASE Refuse(c)  BY <1>1, <1>2, EndWays DEF Refuse, Cleaning
<1>3. ASSUME <<>> \in QueryEvents(evt, Part(Name(c))), Goto(c, "release") PROVE Writes(c) /\ Sweeps(c)
  <2>1. "release" \in Pcs  BY DEF Pcs
  <2>2. h'[c].pc = "release" /\ Same(c)  BY <1>3, <2>1, GotoFields
  <2>. QED  BY <1>1, <1>3, <2>2 DEF Writes, Sweeps, Cleaning
<1>4. ASSUME NEW s \in QueryEvents(evt, Part(Name(c))),
             Then(c, [h[c] EXCEPT !.pc = "erase", !.todo = s, !.pass = @ + 1, !.old = s,
                                  !.refs = @ \cup UNION {Refs(e) : e \in Range(s)}])
      PROVE  Writes(c) /\ Sweeps(c)
  <2> DEFINE refs == h[c].refs \cup UNION {Refs(e) : e \in Range(s)}
             pass == h[c].pass + 1
  <2>1. h'[c] = [h[c] EXCEPT !.pc = "erase", !.todo = s, !.pass = pass, !.old = s, !.refs = refs]
    BY <1>4, ThenFields, HandlerIs DEF Handler
  <2> HIDE DEF refs, pass
  <2>2. h'[c].pc = "erase" /\ h'[c].todo = s /\ h'[c].old = s /\ h'[c].refs = refs /\ h'[c].had = h[c].had
    BY <2>1, HandlerIs DEF Handler
  <2>. QED  BY <1>1, <1>4, <2>2 DEF Writes, Sweeps, Cleaning, Kept, refs
<1>. QED  BY <1>2, <1>3, <1>4 DEF Gather, Part, Name

LEMMA EraseWays ==
    ASSUME Shape, NEW c \in Conns, Erase(c)
    PROVE  Writes(c) /\ Sweeps(c)
<1> DEFINE rest == Tail(h[c].todo)
           pc == IF rest # <<>> THEN "erase" ELSE IF Again(c) THEN "gather" ELSE "release"
<1>1. h[c].pc = "erase" /\ own' = own /\ (evt' = {e \in evt : e.id # h[c].todo[1].id} \/ faults' = faults + 1)
  BY DEF Erase, Fault
<1>2. h'[c] = [h[c] EXCEPT !.todo = rest, !.pc = pc]
  <2>1. Then(c, [h[c] EXCEPT !.todo = rest, !.pc = pc])  BY DEF Erase
  <2>. QED  BY <2>1, ThenFields
<1>3. pc \in {"erase", "gather", "release"} /\ (pc = "release" => rest = <<>> /\ ~Again(c))  OBVIOUS
<1> HIDE DEF pc, rest
<1>4. h'[c].pc = pc /\ h'[c].todo = rest /\ h'[c].old = h[c].old /\ Same(c)
  BY <1>2, HandlerIs DEF Handler, Same, Kept
<1>. QED  BY <1>1, <1>3, <1>4 DEF Writes, Sweeps, Cleaning, rest

LEMMA ReleaseWays ==
    ASSUME Shape, NEW c \in Conns, Task(c), Release(c)
    PROVE  Writes(c) /\ Sweeps(c)
<1>1. h[c].pc = "release" /\ evt' = evt /\ Ev(c).kind = 72  BY DEF Release, Task, Removing
<1>2. CASE h[c].refs = {}
  <2>1. Goto(c, "put") /\ "put" \in Pcs  BY <1>2 DEF Release, Pcs
  <2>2. h'[c].pc = "put" /\ Same(c)  BY <2>1, GotoFields
  <2>. QED  BY <1>1, <1>2, <2>2 DEF Writes, Sweeps, Cleaning
<1>3. CASE h[c].refs # {}
  <2>1. PICK ref \in h[c].refs : /\ Then(c, [h[c] EXCEPT !.refs = @ \ {ref}])
                                  /\ (own' = own \ {ref} \/ faults' = faults + 1)
    BY <1>3 DEF Release, Fault
  <2> DEFINE refs == h[c].refs \ {ref}
             next == [h[c] EXCEPT !.refs = refs]
  <2>2. h' = [h EXCEPT ![c] = next]  BY <2>1, HandlerIs DEF Then, Handler
  <2>3. h'[c] = next  BY <2>2 DEF Shape
  <2> HIDE DEF refs
  <2>4. h'[c].pc = "release" /\ h'[c].refs = refs /\ Kept(c) /\ h'[c].pass = h[c].pass
    BY <1>1, <2>3, HandlerIs DEF Handler, Kept
  <2>5. GivesUp(c)  BY <2>1, <2>4 DEF GivesUp, refs
  <2>. QED  BY <1>1, <2>4, <2>5 DEF Writes, Sweeps, Cleaning
<1>. QED  BY <1>2, <1>3

LEMMA StepWays ==
    ASSUME Basics, NEW c \in Conns, Step(c)
    PROVE  Writes(c) /\ Sweeps(c)
<1>1. Shape /\ Task(c)  BY DEF Basics
<1>. QED  BY <1>1, AdmitWays, QueryWays, VerifyWays, BindWays, PutWays, CleanWays, OrphanWays,
             ResolveWays, GatherWays, EraseWays, ReleaseWays DEF Step

-----------------------------------------------------------------------------
(* One permission event stays *)

\* An event that was not stored yet is nowhere, as each is sent once.
Unsent(c, j) == j > h[c].pos \/ (j = h[c].pos /\ h[c].pc \notin Cleaning)
Nowhere(x) == x \notin evt /\ \A d \in Conns : x \notin Range(h[d].old) \cup Range(h[d].todo) \cup h[d].had
Upcoming ==
    SentOnce(scene) =>
       \A c \in Conns : \A j \in DOMAIN scene.script[c] : Unsent(c, j) => Nowhere(scene.script[c][j])

\* What a cascade erases names its repository.
Marked(c) == h[c].pc = "erase" => \A i \in DOMAIN h[c].todo : Name(c) \in Values(h[c].todo[i], "r")

\* A handler that has stored its event of r, or an event that is acknowledged.
Started(r) ==
    \/ \E e \in scene.evt \cup {x \in Sent : x.id \in oks} : Perm(e, r)
    \/ \E c \in Conns : h[c].pc \in Cleaning /\ Perm(Ev(c), r)
\* An event that no handler is about to delete.
Safe(x) == \A d \in Conns : h[d].pc = "clean" => x \notin Range(h[d].todo) \/ x = Ev(d)
Stays(r) == \E x \in evt : Perm(x, r) /\ Safe(x)
Lasts == SentOnce(scene) => \A r \in DOMAIN Repo : ~Cascaded(r) /\ Started(r) => Stays(r)

LEMMA ScriptIs ==
    ASSUME Shape, NEW c \in Conns
    PROVE  DOMAIN scene.script[c] = 1..Len(scene.script[c]) /\ Len(scene.script[c]) \in Nat
BY LenProperties DEF Shape, Regular

\* What is not sent yet was not sent before.
LEMMA UnsentBefore ==
    ASSUME Basics, NEW e \in Conns, Turn(e), NEW c \in Conns, NEW j \in DOMAIN scene.script[c], Unsent(c, j)'
    PROVE  Unsent(c, j)
<1>1. h[c].pos \in Nat /\ j \in Nat  BY HandlerIs, ScriptIs DEF Basics
<1>2. CASE c # e  BY <1>2 DEF Unsent, Turn, Frame
<1>3. CASE c = e
  <2>1. Turns(e)  BY DEF Turn
  <2>2. CASE h'[c].pc = "idle"
    <3>1. h'[c].pos = h[c].pos + 1  BY <1>3, <2>1, <2>2 DEF Turns
    <3>2. j > h[c].pos  BY <1>1, <3>1 DEF Unsent
    <3>. QED  BY <3>2 DEF Unsent
  <2>3. CASE h'[c].pc # "idle"
    <3>1. h'[c].pos = h[c].pos /\ (h[c].pc \in Cleaning => h'[c].pc \in Cleaning)  BY <1>3, <2>1, <2>3 DEF Turns
    <3>. QED  BY <3>1 DEF Unsent
  <2>. QED  BY <2>2, <2>3
<1>. QED  BY <1>2, <1>3

\* The event of a handler, before it is stored.
LEMMA EvUpcoming ==
    ASSUME Basics, Upcoming, SentOnce(scene), NEW c \in Conns, h[c].pc = "put"
    PROVE  Nowhere(Ev(c))
<1>1. h[c].pos \in DOMAIN scene.script[c]  BY DEF Basics, Task
<1>2. Unsent(c, h[c].pos)  BY DEF Unsent, Cleaning
<1>. QED  BY <1>1, <1>2 DEF Upcoming, Ev

LEMMA UpcomingStep ==
    ASSUME Basics, Upcoming, NEW e \in Conns, Turn(e)
    PROVE  Upcoming'
<1> SUFFICES ASSUME SentOnce(scene), NEW c \in Conns, NEW j \in DOMAIN scene.script[c], Unsent(c, j)'
             PROVE  Nowhere(scene.script[c][j])'
  <2>1. scene' = scene  BY DEF Turn, Frame
  <2>. QED  BY <2>1 DEF Upcoming
<1> DEFINE x == scene.script[c][j]
<1>1. scene' = scene /\ x' = x  BY DEF Turn, Frame
<1>2. Nowhere(x)  BY UnsentBefore DEF Upcoming
<1>3. x \notin evt'
  <2>. SUFFICES ASSUME x \in evt' PROVE FALSE  OBVIOUS
  <2>1. h[e].pc = "put" /\ x = Ev(e) /\ Ev(e) \in evt' /\ Ev(e) \notin evt  BY <1>2 DEF Turn, Events, Nowhere
  <2>2. h'[e].pc = IF Ev(e).kind = 31415 THEN "clean" ELSE "idle"  BY <2>1 DEF Turn, Events
  <2>3. h[e].pos \in DOMAIN scene.script[e] /\ x = scene.script[e][h[e].pos]  BY <2>1 DEF Basics, Task, Ev
  <2>4. c = e /\ j = h[e].pos  BY <2>3 DEF SentOnce
  <2>5. CASE h'[e].pc = "clean"
    <3>1. h'[e].pos = h[e].pos /\ h'[e].pc \in Cleaning  BY <2>5 DEF Turn, Turns, Cleaning
    <3>2. h[e].pos \in Nat  BY HandlerIs DEF Basics
    <3>. QED  BY <2>4, <3>1, <3>2 DEF Unsent
  <2>6. CASE h'[e].pc = "idle"
    <3>1. h'[e].pos = h[e].pos + 1 /\ h[e].pos \in Nat  BY <2>6, HandlerIs DEF Turn, Turns, Basics
    <3>. QED  BY <2>4, <3>1 DEF Unsent
  <2>. QED  BY <2>2, <2>5, <2>6
<1>4. ASSUME NEW d \in Conns PROVE x \notin Range(h'[d].old) \cup Range(h'[d].todo) \cup h'[d].had
  <2>1. x \notin evt /\ x \notin Range(h[d].old) \cup Range(h[d].todo) \cup h[d].had  BY <1>2 DEF Nowhere
  <2>2. CASE d # e  BY <2>1, <2>2 DEF Turn, Frame
  <2>3. CASE d = e  BY <2>1, <2>3 DEF Turn, Recalls
  <2>. QED  BY <2>2, <2>3
<1>. QED  BY <1>1, <1>3, <1>4 DEF Nowhere

LEMMA UpcomingRestart ==
    ASSUME Basics, Upcoming, Restart
    PROVE  Upcoming'
<1>1. scene' = scene /\ evt' = evt /\ Shape  BY DEF Restart, Basics
<1>2. \A c \in Conns : Stopped(c)  BY <1>1, RestartIs
<1> SUFFICES ASSUME SentOnce(scene), NEW c \in Conns, NEW j \in DOMAIN scene.script[c], Unsent(c, j)'
             PROVE  Nowhere(scene.script[c][j])'
  BY <1>1 DEF Upcoming
<1>3. h[c].pos \in Nat /\ j \in Nat  BY <1>1, HandlerIs, ScriptIs
<1>4. Unsent(c, j)
  <2>1. CASE h[c].pc = "idle"  BY <1>2, <2>1 DEF Stopped, Unsent
  <2>2. CASE h[c].pc # "idle"
    <3>1. h'[c].pos = h[c].pos + 1  BY <1>2, <2>2 DEF Stopped
    <3>. QED  BY <1>3, <3>1 DEF Unsent
  <2>. QED  BY <2>1, <2>2
<1> DEFINE x == scene.script[c][j]
<1>5. Nowhere(x)  BY <1>4 DEF Upcoming
<1>6. ASSUME NEW d \in Conns PROVE x \notin Range(h'[d].old) \cup Range(h'[d].todo) \cup h'[d].had
  <2>1. x \notin Range(h[d].old) \cup Range(h[d].todo) \cup h[d].had  BY <1>5 DEF Nowhere
  <2>2. CASE h[d].pc = "idle"  BY <1>2, <2>1, <2>2 DEF Stopped
  <2>3. CASE h[d].pc # "idle"  BY <1>2, <2>3 DEF Stopped
  <2>. QED  BY <2>2, <2>3
<1>. QED  BY <1>1, <1>5, <1>6 DEF Nowhere

LEMMA MarkedStep ==
    ASSUME Basics, NEW e \in Conns, Turn(e), Sweeps(e), Marked(e)
    PROVE  Marked(e)'
<1> SUFFICES ASSUME h'[e].pc = "erase" PROVE \A i \in DOMAIN h'[e].todo : Name(e)' \in Values(h'[e].todo[i], "r")
  BY DEF Marked
<1>1. Ev(e)' = Ev(e) /\ Name(e)' = Name(e)  BY DEF Turn, Turns, Frame, Ev, Name
<1>2. CASE h'[e].todo \in QueryEvents(evt, Part(Name(e)))  BY <1>1, <1>2, BatchIs DEF Basics
<1>3. CASE h[e].pc = "erase" /\ h'[e].todo = Tail(h[e].todo)
  <2>1. h[e].todo \in Seq(All(scene)) /\ h[e].todo # <<>>  BY <1>3, HandlerIs DEF Basics, Task
  <2>2. \A i \in DOMAIN Tail(h[e].todo) : i + 1 \in DOMAIN h[e].todo /\ Tail(h[e].todo)[i] = h[e].todo[i + 1]
    BY <2>1, TailIs
  <2>. QED  BY <1>1, <1>3, <2>2 DEF Marked
<1>. QED  BY <1>2, <1>3 DEF Sweeps

LEMMA EraseNames ==
    ASSUME Basics, NEW e \in Conns, Marked(e), h[e].pc = "erase"
    PROVE  h[e].todo[1] \in All(scene) /\ Name(e) \in Values(h[e].todo[1], "r") /\ Ev(e).kind = 72 /\ Ev(e) \in Sent
           /\ Name(e) # None
<1>1. /\ Ev(e).kind = 72 /\ h[e].todo # <<>> /\ h[e].pos \in DOMAIN scene.script[e] /\ Name(e) # None
  BY DEF Basics, Task, Removing
<1>2. h[e].todo \in Seq(All(scene))  BY HandlerIs DEF Basics
<1>3. 1 \in DOMAIN h[e].todo /\ h[e].todo[1] \in All(scene)
  <2>1. Len(h[e].todo) \in Nat /\ Len(h[e].todo) # 0 /\ DOMAIN h[e].todo = 1..Len(h[e].todo)
    BY <1>1, <1>2, LenProperties, EmptySeq
  <2>2. 1 \in 1..Len(h[e].todo)  BY <2>1
  <2>. QED  BY <1>2, <2>1, <2>2, ElementOfSeq
<1>. QED  BY <1>1, <1>3, EvIs DEF Marked, Basics

\* The event that a handler has just stored.
LEMMA NewStays ==
    ASSUME Basics, Upcoming, SentOnce(scene), NEW e \in Conns, Turn(e), h[e].pc = "put", h'[e].pc \in Cleaning,
           Ev(e).kind = 31415, NEW r, Name(e) = r
    PROVE  Stays(r)'
<1>1. Ev(e) \in evt'  BY DEF Turn, Turns, Cleaning
<1>2. Ev(e)' = Ev(e)  BY DEF Turn, Turns, Frame, Ev, Cleaning
<1>3. Nowhere(Ev(e))  BY EvUpcoming
<1>4. ASSUME NEW d \in Conns, h'[d].pc = "clean" PROVE Ev(e) \notin Range(h'[d].todo) \/ Ev(e) = Ev(d)'
  <2>1. CASE d = e  BY <1>2, <2>1
  <2>2. CASE d # e
    <3>1. h'[d] = h[d]  BY <2>2 DEF Turn, Frame
    <3>. QED  BY <1>3, <3>1 DEF Nowhere
  <2>. QED  BY <2>1, <2>2
<1>5. Perm(Ev(e), r)  BY DEF Perm, Name
<1>. QED  BY <1>1, <1>4, <1>5 DEF Stays, Safe

LEMMA OldStays ==
    ASSUME Basics, Upcoming, SentOnce(scene), NEW e \in Conns, Turn(e), Writes(e), Marked(e),
           NEW r, ~Cascaded(r), Stays(r)
    PROVE  Stays(r)'
<1>1. PICK x \in evt : Perm(x, r) /\ Safe(x)  BY DEF Stays
<1>2. x \in evt'
  <2>. SUFFICES ASSUME x \notin evt' PROVE FALSE  OBVIOUS
  <2>1. CASE h[e].pc = "clean" /\ h[e].todo # <<>> /\ x = h[e].todo[1] /\ x # Ev(e)
    <3>1. h[e].todo \in Seq(All(scene)) /\ h[e].todo # <<>>  BY <2>1, HandlerIs DEF Basics
    <3>2. x \in Range(h[e].todo)  BY <2>1, <3>1, TailIs
    <3>. QED  BY <1>1, <2>1, <3>2 DEF Safe
  <2>2. CASE h[e].pc = "erase" /\ x = h[e].todo[1]
    <3>1. x \in All(scene) /\ Name(e) \in Values(x, "r") /\ Ev(e).kind = 72 /\ Ev(e) \in Sent /\ Name(e) # None
      BY <2>2, EraseNames
    <3>2. Perm(x, Name(e))  BY <1>1, <3>1, PermsAre DEF Basics, Perm
    <3>. QED  BY <1>1, <3>1, <3>2 DEF Cascaded, Perm, Name
  <2>. QED  BY <2>1, <2>2 DEF Turn, Events
<1>3. CASE h[e].pc = "put" /\ h'[e].pc = "clean" /\ h'[e].todo = h[e].old /\ x \in Range(h[e].old)
  <2>1. Ev(e).kind = 31415 /\ h'[e].pc \in Cleaning /\ h[e].pc \notin Cleaning  BY <1>3 DEF Turn, Turns, Cleaning
  <2>2. PICK i \in DOMAIN h[e].old : x = h[e].old[i]  BY <1>3 DEF Range
  <2>3. Perm(x, Name(e))  BY <1>3, <2>1, <2>2 DEF Basics, Task, Finds
  <2>4. Name(e) = r  BY <1>1, <2>3 DEF Perm
  <2>. QED  BY <1>3, <2>1, <2>4, NewStays
<1>4. CASE ~(h[e].pc = "put" /\ h'[e].pc = "clean" /\ h'[e].todo = h[e].old /\ x \in Range(h[e].old))
  <2>1. ASSUME NEW d \in Conns, h'[d].pc = "clean" PROVE x \notin Range(h'[d].todo) \/ x = Ev(d)'
    <3>1. CASE d # e
      <4>1. h'[d] = h[d] /\ Ev(d)' = Ev(d)  BY <3>1 DEF Turn, Frame, Ev
      <4>. QED  BY <1>1, <2>1, <4>1 DEF Safe
    <3>2. CASE d = e
      <4>1. Ev(e)' = Ev(e)  BY <2>1, <3>2 DEF Turn, Turns, Frame, Ev
      <4>2. \/ h[e].pc = "clean" /\ Range(h'[e].todo) \subseteq Range(h[e].todo)
            \/ h[e].pc = "put" /\ h'[e].todo = h[e].old
        BY <2>1, <3>2 DEF Turn, Recalls
      <4>. QED  BY <1>1, <1>4, <2>1, <3>2, <4>1, <4>2 DEF Safe
    <3>. QED  BY <3>1, <3>2
  <2>. QED  BY <1>1, <1>2, <2>1 DEF Stays, Safe
<1>. QED  BY <1>3, <1>4

LEMMA LastsStep ==
    ASSUME Basics, Upcoming, Lasts, NEW e \in Conns, Turn(e), Writes(e), Marked(e)
    PROVE  Lasts'
<1>1. scene' = scene /\ Sent' = Sent  BY DEF Turn, Frame, Sent
<1> SUFFICES ASSUME SentOnce(scene), NEW r \in DOMAIN Repo, ~Cascaded(r), Started(r)'
             PROVE  Stays(r)'
  BY <1>1 DEF Lasts, Cascaded
<1>2. CASE Started(r)
  <2>1. Stays(r)  BY <1>2 DEF Lasts
  <2>. QED  BY <2>1, OldStays
<1>3. CASE ~Started(r)
  <2>1. ASSUME NEW x \in scene.evt \cup {y \in Sent : y.id \in oks'}, Perm(x, r) PROVE FALSE
    <3>1. x \in Sent /\ x.id \in oks' /\ x.id \notin oks  BY <1>3, <2>1 DEF Started
    <3>2. x.id = Ev(e).id /\ (h[e].pc = "orphan" \/ (h[e].pc = "put" /\ Ev(e).kind # 31415))
      BY <3>1 DEF Turn, Acks
    <3>3. Ev(e) \in All(scene) /\ x \in All(scene)
      <4>1. h[e].pos \in DOMAIN scene.script[e]  BY <3>2 DEF Basics, Task
      <4>. QED  BY <3>1, <4>1, EvIs DEF Basics, All, Sent
    <3>4. x = Ev(e)  BY <3>2, <3>3 DEF Basics, Shape, Regular
    <3>5. h[e].pc \in Cleaning  BY <2>1, <3>2, <3>4 DEF Perm, Cleaning
    <3>. QED  BY <1>3, <2>1, <3>4, <3>5 DEF Started
  <2>2. PICK c \in Conns : h'[c].pc \in Cleaning /\ Perm(Ev(c)', r)  BY <1>1, <2>1 DEF Started
  <2>3. c = e
    <3>. SUFFICES ASSUME c # e PROVE FALSE  OBVIOUS
    <3>1. h'[c] = h[c] /\ Ev(c)' = Ev(c)  BY DEF Turn, Frame, Ev
    <3>. QED  BY <1>3, <2>2, <3>1 DEF Started
  <2>4. Ev(e)' = Ev(e)  BY <2>2, <2>3 DEF Turn, Turns, Frame, Ev, Cleaning
  <2>5. h[e].pc \notin Cleaning  BY <1>3, <2>2, <2>3, <2>4 DEF Started
  <2>6. h[e].pc = "put" /\ Ev(e).kind = 31415  BY <2>2, <2>3, <2>5 DEF Turn, Turns
  <2>7. Name(e) = r  BY <2>2, <2>3, <2>4 DEF Perm, Name
  <2>. QED  BY <2>2, <2>3, <2>6, <2>7, NewStays
<1>. QED  BY <1>2, <1>3

\* With connections that take turns and nothing failed: what is left of the
\* versions of a repository, at each step of the handler that replaces them.
Held(r) == {e \in evt : Perm(e, r)}
Tidy(c) ==
    /\ h[c].pc \in {"verify", "bind", "put"} /\ Ev(c).kind = 31415 => Held(Name(c)) \subseteq Range(h[c].old)
    /\ h[c].pc = "clean" => Held(Name(c)) \subseteq Range(h[c].todo) \cup {Ev(c)}
    /\ h[c].pc \in {"orphan", "refs", "drop"} => Held(Name(c)) \subseteq {Ev(c)}
Single(r) == \A x, y \in evt : Perm(x, r) /\ Perm(y, r) => x = y
Undisturbed == Alone /\ faults = 0 /\ restarts = 0
Neat ==
    Undisturbed =>
       /\ \A c \in Conns : Tidy(c)
       /\ \A e \in All(scene) : (\A c \in Conns : h[c].pc \in Cleaning => Name(c) # FirstTag(e, "r"))
                                => Single(FirstTag(e, "r"))

\* Connections take turns: nobody else has events.
LEMMA OneSends ==
    ASSUME Basics, Alone, NEW c \in Conns, scene.script[c] # <<>>, NEW d \in Conns, d # c
    PROVE  h[d].pc = "idle"
<1>1. scene.script[d] = <<>>  BY DEF Alone
<1>2. h[d].pos \notin DOMAIN scene.script[d]  BY <1>1
<1>. QED  BY <1>2 DEF Basics, Task

LEMMA StepSends ==
    ASSUME Basics, NEW c \in Conns, Step(c)
    PROVE  scene.script[c] # <<>>
<1>1. CASE h[c].pc # "idle"
  <2>1. h[c].pos \in DOMAIN scene.script[c]  BY <1>1 DEF Basics, Task
  <2>. QED  BY <2>1
<1>2. CASE h[c].pc = "idle"
  <2>1. h[c].pos <= Len(scene.script[c])
    BY <1>2 DEF Step, Admit, Query, Verify, Bind, Put, Clean, Forget, LookForRefs, Drop, Resolve, Gather, Erase, Release
  <2>2. h[c].pos \in Nat \ {0}  BY HandlerIs DEF Basics
  <2>3. Len(scene.script[c]) # 0  BY <2>1, <2>2
  <2>. QED  BY <2>3, ScriptIs, EmptySeq
<1>. QED  BY <1>1, <1>2

LEMMA NameSent ==
    ASSUME Basics, NEW c \in Conns, h[c].pc # "idle", Ev(c).kind = 31415
    PROVE  Name(c) # None /\ Ev(c) \in All(scene)
BY EvIs DEF Basics, Task

LEMMA AtMostOne ==
    ASSUME NEW S, \A x, y \in S : x = y
    PROVE  Cardinality(S) <= 1
<1>1. CASE S = {}
  <2>1. Cardinality(S) = 0  BY <1>1, FS_EmptySet
  <2>. QED  BY <2>1
<1>2. CASE S # {}
  <2>1. PICK x \in S : TRUE  BY <1>2
  <2>2. S = {x}  BY <2>1
  <2>3. Cardinality(S) = 1  BY <2>2, FS_Singleton
  <2>. QED  BY <2>3
<1>. QED  BY <1>1, <1>2

LEMMA TidyStep ==
    ASSUME Basics, Neat, Undisturbed, NEW c \in Conns, scene.script[c] # <<>>, Turn(c), Writes(c), faults' = 0
    PROVE  Tidy(c)'
<1>1. Tidy(c) /\ Shape  BY DEF Neat, Basics
<1>2. CASE h'[c].pc = "verify"
  <2>1. h[c].pc = "query" /\ evt' = evt /\ h'[c].old \in Permissions(evt, Name(c))  BY <1>2 DEF Writes
  <2>2. Ev(c).kind = 31415  BY <2>1 DEF Basics, Task, Writing
  <2>3. Name(c) # None /\ Ev(c) \in All(scene)  BY <2>1, <2>2, NameSent
  <2>4. Single(Name(c))
    <3>1. ASSUME NEW d \in Conns, h[d].pc \in Cleaning PROVE Name(d) # FirstTag(Ev(c), "r")
      <4>1. d = c  BY <3>1, OneSends DEF Undisturbed, Cleaning
      <4>. QED  BY <2>1, <3>1, <4>1 DEF Cleaning
    <3>. QED  BY <2>3, <3>1 DEF Neat, Name
  <2>5. Cardinality({e \in evt : Perm(e, Name(c))}) <= 1
    <3>. QED  BY <2>4, AtMostOne DEF Single
  <2>6. {e \in evt : Perm(e, Name(c))} \subseteq Range(h'[c].old)
    <3> DEFINE r == Name(c)
               s == h'[c].old
    <3>1. r # None /\ s \in Permissions(evt, r) /\ Cardinality({e \in evt : Perm(e, r)}) <= 1  BY <2>1, <2>3, <2>5
    <3> HIDE DEF r, s
    <3>2. {e \in evt : Perm(e, r)} \subseteq Range(s)  BY <1>1, <3>1, PermissionsHold
    <3>. QED  BY <3>2 DEF r, s
  <2>7. Name(c)' = Name(c)  BY <1>2 DEF Turn, Turns, Frame, Name, Ev
  <2>. QED  BY <1>2, <2>1, <2>6, <2>7 DEF Tidy, Held, Cleaning
<1>3. CASE h'[c].pc \in {"bind", "put"}
  <2>1. Ev(c)' = Ev(c) /\ Name(c)' = Name(c)  BY <1>3 DEF Turn, Turns, Frame, Name, Ev
  <2>2. SUFFICES ASSUME Ev(c).kind = 31415 PROVE Held(Name(c))' \subseteq Range(h'[c].old)
    BY <1>3, <2>1 DEF Tidy
  <2>3. h[c].pc \in {"verify", "bind"} /\ evt' = evt /\ h'[c].old = h[c].old  BY <1>3, <2>2 DEF Writes
  <2>. QED  BY <1>1, <2>1, <2>2, <2>3 DEF Tidy, Held
<1>4. CASE h'[c].pc = "clean"
  <2>1. Ev(c)' = Ev(c) /\ Name(c)' = Name(c)  BY <1>4 DEF Turn, Turns, Frame, Name, Ev
  <2>2. CASE h[c].pc = "put" /\ evt' = evt \cup {Ev(c)} /\ h'[c].todo = h[c].old
    <3>1. Ev(c).kind = 31415  BY <1>4, <2>2 DEF Turn, Turns, Cleaning
    <3>2. Held(Name(c)) \subseteq Range(h[c].old)  BY <1>1, <2>2, <3>1 DEF Tidy
    <3>. QED  BY <1>4, <2>1, <2>2, <3>2 DEF Tidy, Held
  <2>3. CASE /\ h[c].pc = "clean" /\ h[c].todo # <<>> /\ h'[c].todo = Tail(h[c].todo)
             /\ evt' = {e \in evt : ~Outdated(c, e)} \/ faults' = faults + 1
    <3>1. evt' = {e \in evt : ~Outdated(c, e)}  BY <2>3 DEF Undisturbed
    <3>2. h[c].todo \in Seq(All(scene))  BY <1>1, HandlerIs
    <3>3. \A x \in Range(h[c].todo) : x = h[c].todo[1] \/ x \in Range(Tail(h[c].todo))  BY <2>3, <3>2, TailIs
    <3>4. Held(Name(c)) \subseteq Range(h[c].todo) \cup {Ev(c)}  BY <1>1, <2>3 DEF Tidy
    <3>5. Ev(c).kind = 31415  BY <2>3 DEF Basics, Task, Cleaning
    <3>6. Ev(c) \in All(scene) /\ evt \subseteq All(scene)  BY <1>1, <2>3, <3>5, NameSent DEF Shape
    <3>7. ASSUME NEW x \in evt', Perm(x, Name(c)) PROVE x \in Range(h'[c].todo) \cup {Ev(c)}
      <4>1. x \in evt /\ (x.id = Ev(c).id \/ x # h[c].todo[1])  BY <2>3, <3>1, <3>7 DEF Outdated
      <4>2. x.id = Ev(c).id => x = Ev(c)  BY <1>1, <3>6, <4>1 DEF Shape, Regular
      <4>. QED  BY <2>3, <3>3, <3>4, <3>7, <4>1, <4>2 DEF Held
    <3>. QED  BY <1>4, <2>1, <3>7 DEF Tidy, Held
  <2>. QED  BY <1>4, <2>2, <2>3 DEF Writes
<1>5. CASE h'[c].pc \in {"orphan", "refs", "drop"}
  <2>1. Ev(c)' = Ev(c) /\ Name(c)' = Name(c)  BY <1>5 DEF Turn, Turns, Frame, Name, Ev
  <2>2. evt' = evt /\ (h[c].pc \in {"orphan", "refs", "drop"} \/ (h[c].pc = "clean" /\ h[c].todo = <<>>))
    BY <1>5 DEF Writes
  <2>3. Held(Name(c)) \subseteq {Ev(c)}  BY <1>1, <2>2, NothingIn DEF Tidy
  <2>. QED  BY <1>5, <2>1, <2>2, <2>3 DEF Tidy, Held
<1>. QED  BY <1>2, <1>3, <1>4, <1>5 DEF Tidy

LEMMA SingleStep ==
    ASSUME Basics, Neat, Undisturbed, NEW c \in Conns, scene.script[c] # <<>>, Turn(c), Writes(c),
           NEW e \in All(scene), \A d \in Conns : h'[d].pc \in Cleaning => Name(d)' # FirstTag(e, "r")
    PROVE  Single(FirstTag(e, "r"))'
<1> DEFINE r == FirstTag(e, "r")
<1>1. ASSUME NEW d \in Conns, d # c PROVE h[d].pc \notin Cleaning
  <2>1. h[d].pc = "idle"  BY <1>1, OneSends DEF Undisturbed
  <2>. QED  BY <2>1 DEF Cleaning
<1> SUFFICES ASSUME NEW x \in evt', NEW y \in evt', Perm(x, r), Perm(y, r) PROVE x = y
  BY DEF Single
<1>2. CASE h[c].pc \notin Cleaning
  <2>1. Single(r)  BY <1>1, <1>2 DEF Neat
  <2>2. ASSUME NEW z \in evt', Perm(z, r) PROVE z \in evt
    <3>. SUFFICES ASSUME z \notin evt PROVE FALSE  OBVIOUS
    <3>1. h[c].pc = "put" /\ z = Ev(c) /\ Ev(c).kind = 31415  BY <2>2 DEF Turn, Events, Perm
    <3>2. h'[c].pc = "clean"  BY <2>2, <3>1 DEF Turn, Events
    <3>3. Name(c)' = Name(c)  BY <3>2 DEF Turn, Turns, Frame, Name, Ev
    <3>. QED  BY <2>2, <3>1, <3>2, <3>3 DEF Perm, Name, Cleaning
  <2>. QED  BY <2>1, <2>2 DEF Single
<1>3. CASE h[c].pc \in Cleaning
  <2>1. h[c].pc # "put"  BY <1>3 DEF Cleaning
  <2>2. x \in evt /\ y \in evt  BY <2>1 DEF Turn, Events
  <2>3. CASE Name(c) # r
    <3>1. Single(r)  BY <1>1, <2>3 DEF Neat
    <3>. QED  BY <2>2, <3>1 DEF Single
  <2>4. CASE Name(c) = r
    <3>1. h'[c].pc \notin Cleaning
      <4>. SUFFICES ASSUME h'[c].pc \in Cleaning PROVE FALSE  OBVIOUS
      <4>1. Name(c)' = Name(c)  BY DEF Turn, Turns, Frame, Name, Ev, Cleaning
      <4>. QED  BY <2>4, <4>1
    <3>2. h'[c].pc = "idle"  BY <1>3, <3>1 DEF Turn, Turns
    <3>3. h[c].pc = "orphan"  BY <1>3, <3>2 DEF Writes
    <3>4. Held(Name(c)) \subseteq {Ev(c)}  BY <3>3 DEF Neat, Tidy
    <3>. QED  BY <2>2, <2>4, <3>4 DEF Held
  <2>. QED  BY <2>3, <2>4
<1>. QED  BY <1>2, <1>3

LEMMA NeatStep ==
    ASSUME Basics, Neat, NEW c \in Conns, scene.script[c] # <<>>, Turn(c), Writes(c)
    PROVE  Neat'
<1>1. scene' = scene /\ restarts' = restarts /\ (faults' = 0 => faults = 0)  BY DEF Turn, Frame
<1> SUFFICES ASSUME Undisturbed, faults' = 0 PROVE Neat'
  BY <1>1 DEF Neat, Undisturbed, Alone
<1>2. ASSUME NEW d \in Conns PROVE Tidy(d)'
  <2>1. CASE d = c  BY <2>1, TidyStep
  <2>2. CASE d # c
    <3>1. h[d].pc = "idle"  BY <2>2, OneSends DEF Undisturbed
    <3>2. h'[d] = h[d]  BY <2>2 DEF Turn, Frame
    <3>. QED  BY <3>1, <3>2 DEF Tidy
  <2>. QED  BY <2>1, <2>2
<1>3. ASSUME NEW e \in All(scene), \A d \in Conns : h'[d].pc \in Cleaning => Name(d)' # FirstTag(e, "r")
      PROVE  Single(FirstTag(e, "r"))'
  BY <1>3, SingleStep
<1>4. All(scene)' = All(scene)  BY <1>1 DEF All, SentBy
<1>. QED  BY <1>2, <1>3, <1>4 DEF Neat

-----------------------------------------------------------------------------
KeepsInv == Basics /\ Upcoming /\ Lasts /\ Neat /\ \A c \in Conns : Marked(c)

LEMMA KeepsInit ==
    ASSUME \A s \in Scenes : Regular(s) /\ Orderly(s) /\ Settled(s), Init
    PROVE  KeepsInv
<1>1. Basics  BY InitBasics
<1>2. /\ scene \in Scenes /\ evt = scene.evt /\ oks = {}
      /\ \A c \in Conns : /\ h[c].pc = "idle" /\ h[c].pos = 1 /\ Range(h[c].old) = {} /\ Range(h[c].todo) = {}
                           /\ h[c].had = {}
  BY InitIs
<1>3. Upcoming
  <2> SUFFICES ASSUME SentOnce(scene), NEW c \in Conns, NEW j \in DOMAIN scene.script[c]
               PROVE  Nowhere(scene.script[c][j])
    BY DEF Upcoming
  <2>1. scene.script[c][j] \in SentBy(scene)  BY DEF SentBy, Range
  <2>2. scene.script[c][j] \notin scene.evt  BY <2>1 DEF SentOnce
  <2>. QED  BY <1>2, <2>2 DEF Nowhere
<1>4. Lasts
  <2> SUFFICES ASSUME NEW r, Started(r) PROVE Stays(r)
    BY DEF Lasts
  <2>1. \A c \in Conns : h[c].pc \notin Cleaning /\ h[c].pc # "clean"  BY <1>2 DEF Cleaning
  <2>2. PICK e \in scene.evt : Perm(e, r)  BY <1>2, <2>1 DEF Started
  <2>. QED  BY <1>2, <2>1, <2>2 DEF Stays, Safe
<1>5. Neat
  <2>1. \A c \in Conns : Tidy(c)  BY <1>2 DEF Tidy
  <2>2. \A e \in All(scene) : Single(FirstTag(e, "r"))  BY <1>2 DEF Single, Perm, Settled
  <2>. QED  BY <2>1, <2>2 DEF Neat
<1>6. \A c \in Conns : Marked(c)  BY <1>2 DEF Marked
<1>. QED  BY <1>1, <1>3, <1>4, <1>5, <1>6 DEF KeepsInv

LEMMA KeepsSame ==
    ASSUME KeepsInv, scene' = scene, evt' = evt, h' = h, oks' = oks, faults' = faults, restarts' = restarts
    PROVE  (Upcoming /\ Lasts /\ Neat /\ \A c \in Conns : Marked(c))'
<1>1. Upcoming'  BY DEF KeepsInv, Upcoming, Nowhere, Unsent
<1>2. Lasts'  BY DEF KeepsInv, Lasts, Started, Stays, Safe, Ev, Sent, Cascaded
<1>3. Neat'
  <2>1. \A c \in Conns : Tidy(c)' <=> Tidy(c)  BY DEF Tidy, Held, Name, Ev
  <2>2. Undisturbed' <=> Undisturbed  BY DEF Undisturbed, Alone
  <2>3. \A e : Single(FirstTag(e, "r"))' <=> Single(FirstTag(e, "r"))  BY DEF Single
  <2>4. \A c \in Conns : Name(c)' = Name(c)  BY DEF Name, Ev
  <2>5. Neat  BY DEF KeepsInv
  <2>6. All(scene)' = All(scene)  BY DEF All, SentBy
  <2>. QED  BY <2>1, <2>2, <2>3, <2>4, <2>5, <2>6 DEF Neat
<1>4. \A c \in Conns : Marked(c)'  BY DEF KeepsInv, Marked, Name, Ev
<1>. QED  BY <1>1, <1>2, <1>3, <1>4

LEMMA KeepsNext ==
    ASSUME KeepsInv, [Next]_vars
    PROVE  KeepsInv'
<1>1. Basics'  BY NextBasics DEF KeepsInv
<1>2. CASE \E c \in Conns : Step(c)
  <2>1. PICK c \in Conns : Step(c)  BY <1>2
  <2>2. Basics /\ Upcoming /\ Lasts /\ Neat /\ \A d \in Conns : Marked(d)  BY DEF KeepsInv
  <2>3. Turn(c) /\ Writes(c) /\ Sweeps(c) /\ scene.script[c] # <<>>  BY <2>1, <2>2, StepTurn, StepWays, StepSends
  <2>4. Upcoming'  BY <2>2, <2>3, UpcomingStep
  <2>5. Lasts'  BY <2>2, <2>3, LastsStep
  <2>6. Neat'  BY <2>2, <2>3, NeatStep
  <2>7. ASSUME NEW d \in Conns PROVE Marked(d)'
    <3>1. CASE d = c  BY <2>2, <2>3, <3>1, MarkedStep
    <3>2. CASE d # c
      <4>1. h'[d] = h[d] /\ Name(d)' = Name(d)  BY <2>3, <3>2 DEF Turn, Frame, Name, Ev
      <4>. QED  BY <2>2, <4>1 DEF Marked
    <3>. QED  BY <3>1, <3>2
  <2>. QED  BY <1>1, <2>4, <2>5, <2>6, <2>7 DEF KeepsInv
<1>3. CASE Upload \/ Claim
  <2>1. scene' = scene /\ evt' = evt /\ h' = h /\ oks' = oks /\ faults' = faults /\ restarts' = restarts
    BY <1>3, MoveIs
  <2>. QED  BY <1>1, <2>1, KeepsSame DEF KeepsInv
<1>4. CASE Restart
  <2>1. Basics /\ Shape /\ Upcoming /\ Lasts  BY DEF KeepsInv, Basics
  <2>2. scene' = scene /\ evt' = evt /\ oks' = oks /\ restarts' # 0  BY <1>4, <2>1, RestartKeeps
  <2>3. \A c \in Conns : Stopped(c)  BY <1>4, <2>1, RestartIs
  <2>4. Upcoming'  BY <1>4, <2>1, UpcomingRestart
  <2>5. \A c \in Conns : h'[c].pc \notin Cleaning /\ h'[c].pc # "clean" /\ h'[c].pc # "erase"
    BY <2>3 DEF Stopped, Cleaning
  <2>6. Lasts'
    <3> SUFFICES ASSUME SentOnce(scene), NEW r \in DOMAIN Repo, ~Cascaded(r), Started(r)' PROVE Stays(r)'
      BY <2>2 DEF Lasts, Cascaded, Sent
    <3>1. Started(r)  BY <2>2, <2>5 DEF Started, Sent
    <3>2. Stays(r)  BY <2>1, <3>1 DEF Lasts
    <3>. QED  BY <2>2, <2>5, <3>2 DEF Stays, Safe
  <2>7. Neat' /\ \A c \in Conns : Marked(c)'  BY <2>2, <2>5 DEF Neat, Undisturbed, Marked
  <2>. QED  BY <1>1, <2>4, <2>6, <2>7 DEF KeepsInv
<1>5. CASE UNCHANGED vars
  <2>1. scene' = scene /\ evt' = evt /\ h' = h /\ oks' = oks /\ faults' = faults /\ restarts' = restarts
    BY <1>5 DEF vars
  <2>. QED  BY <1>1, <2>1, KeepsSame DEF KeepsInv
<1>. QED  BY <1>2, <1>3, <1>4, <1>5 DEF Next

\* However handlers of a repository's permission events interleave, fail and
\* stop, one event stays; with connections that take turns, one alone.
THEOREM OneIsKept ==
    ASSUME \A s \in Scenes : Regular(s) /\ Orderly(s) /\ Settled(s)
    PROVE  Spec => []KeepsOne
<1>1. Init => KeepsInv  BY KeepsInit
<1>2. KeepsInv /\ [Next]_vars => KeepsInv'  BY KeepsNext
<1>3. KeepsInv => KeepsOne
  <2> SUFFICES ASSUME KeepsInv, NEW r \in DOMAIN Repo, ~Cascaded(r), SentOnce(scene)
               PROVE  /\ (\E e \in scene.evt \cup {x \in Sent : x.id \in oks} :
                             e.kind = 31415 /\ FirstTag(e, "r") = r)
                         => {e \in evt : e.kind = 31415 /\ FirstTag(e, "r") = r} # {}
                      /\ Alone /\ Quiet /\ faults = 0 /\ restarts = 0
                         => Cardinality({e \in evt : e.kind = 31415 /\ FirstTag(e, "r") = r}) <= 1
    BY DEF KeepsOne
  <2> DEFINE held == {e \in evt : e.kind = 31415 /\ FirstTag(e, "r") = r}
  <2>1. ASSUME \E e \in scene.evt \cup {x \in Sent : x.id \in oks} : e.kind = 31415 /\ FirstTag(e, "r") = r
        PROVE  held # {}
    <3>1. Started(r)  BY <2>1 DEF Started, Perm
    <3>2. Stays(r)  BY <3>1 DEF KeepsInv, Lasts
    <3>. QED  BY <3>2 DEF Stays, Perm
  <2>2. ASSUME Alone, Quiet, faults = 0, restarts = 0
        PROVE  Cardinality(held) <= 1
    <3>1. \A e \in held : Single(r)
      <4> SUFFICES ASSUME NEW e \in held PROVE Single(r)  OBVIOUS
      <4>1. \A c \in Conns : h[c].pc \notin Cleaning  BY <2>2 DEF Quiet, Cleaning
      <4>2. e \in All(scene)  BY DEF KeepsInv, Basics, Shape
      <4>. QED  BY <2>2, <4>1, <4>2 DEF KeepsInv, Neat, Undisturbed
    <3>2. \A x, y \in held : x = y  BY <3>1 DEF Single, Perm
    <3> HIDE DEF held
    <3>. QED  BY <3>2, AtMostOne
  <2>. QED  BY <2>1, <2>2
<1>. QED  BY <1>1, <1>2, <1>3, PTL DEF Spec

-----------------------------------------------------------------------------
(* A cascade removes what it found *)

\* How far the handler of a cascade has come, as long as nothing failed.
Sweeping(c) == h[c].pc \in {"gather", "erase", "release"} \/ (h[c].pc = "put" /\ Ev(c).kind = 72)
\* An event is still there, or its author's DAGs are noted or given up.
Noted(c, e) == e \in evt \/ Refs(e) \cap own \subseteq h[c].refs \cup Came(scene, moves)
Gone(c) == h[c].had \cap evt = {} \/ ~(h[c].pass < MaxPasses)
Swept(c) ==
    Sweeping(c) =>
       /\ \A e \in h[c].had : Name(c) \in Values(e, "r") /\ Noted(c, e)
       /\ h[c].pc = "erase" =>
             /\ UNION {Refs(e) : e \in Range(h[c].todo)} \subseteq h[c].refs
             /\ h[c].had \cap evt \subseteq Range(h[c].todo) \/ Len(h[c].old) = Batch
       /\ h[c].pc \in {"release", "put"} => Gone(c)
       /\ h[c].pc = "put" => h[c].refs = {}
AllSwept == SentOnce(scene) /\ InTurn(scene) /\ faults = 0 => \A c \in Conns : Swept(c)

\* A step of another handler: what goes was no event of a cascade but a
\* permission event, which refers to no DAG.
LEMMA OthersSweep ==
    ASSUME Basics, Upcoming, SentOnce(scene), InTurn(scene), NEW e \in Conns, Turn(e), NEW c \in Conns, c # e, Swept(c)
    PROVE  Swept(c)'
<1>1. h'[c] = h[c] /\ scene' = scene /\ moves' = moves /\ own' \subseteq own  BY DEF Turn, Frame, Frees
<1>2. Ev(c)' = Ev(c) /\ Name(c)' = Name(c) /\ Sweeping(c)' = Sweeping(c)  BY <1>1 DEF Ev, Name, Sweeping
<1> SUFFICES ASSUME Sweeping(c) PROVE Swept(c)'
  BY <1>2 DEF Swept
<1>3. Ev(c).kind = 72 /\ h[c].pos \in DOMAIN scene.script[c]  BY DEF Sweeping, Basics, Task, Removing
<1>4. ASSUME NEW x \in h[c].had, x \in evt' PROVE x \in evt
  <2>. SUFFICES ASSUME x \notin evt PROVE FALSE  OBVIOUS
  <2>1. h[e].pc = "put" /\ x = Ev(e)  BY <1>4 DEF Turn, Events
  <2>. QED  BY <2>1, EvUpcoming DEF Nowhere
<1>5. ASSUME NEW x \in h[c].had PROVE Noted(c, x)'
  <2>1. Noted(c, x)  BY DEF Swept
  <2>2. CASE x \notin evt \/ x \in evt'  BY <1>1, <2>1, <2>2 DEF Noted
  <2>3. CASE x \in evt /\ x \notin evt'
    <3>1. CASE h[e].pc = "clean" /\ h[e].todo # <<>> /\ x = h[e].todo[1]
      <4>1. h[e].todo \in Seq(All(scene))  BY HandlerIs DEF Basics
      <4>2. x \in Range(h[e].todo)  BY <3>1, <4>1, TailIs
      <4>3. x \in Range(h[e].old) /\ Ev(e).kind = 31415  BY <3>1, <4>2 DEF Basics, Task, Finds, Cleaning
      <4>4. x.kind = 31415  BY <3>1, <4>3 DEF Range, Basics, Task, Finds, Cleaning, Perm
      <4>5. x \in All(scene)  BY <2>3 DEF Basics, Shape
      <4>6. Refs(x) = {}  BY <4>4, <4>5 DEF Basics, Shape, Orderly
      <4>. QED  BY <4>6 DEF Noted
    <3>2. CASE h[e].pc = "erase"
      <4>1. Ev(e).kind = 72 /\ h[e].pos \in DOMAIN scene.script[e]  BY <3>2 DEF Basics, Task, Removing
      <4>2. Ev(e) \in Range(scene.script[e]) /\ Ev(c) \in Range(scene.script[c])  BY <1>3, <4>1 DEF Ev, Range
      <4>. QED  BY <1>3, <4>1, <4>2 DEF InTurn
    <3>. QED  BY <2>3, <3>1, <3>2 DEF Turn, Events
  <2>. QED  BY <2>2, <2>3
<1>6. h[c].had \cap evt' \subseteq h[c].had \cap evt  BY <1>4
<1>7. \A x \in h[c].had : Name(c) \in Values(x, "r")  BY DEF Swept
<1>8. /\ h[c].pc = "erase" =>
             /\ UNION {Refs(x) : x \in Range(h[c].todo)} \subseteq h[c].refs
             /\ h[c].had \cap evt \subseteq Range(h[c].todo) \/ Len(h[c].old) = Batch
      /\ h[c].pc \in {"release", "put"} => Gone(c)
      /\ h[c].pc = "put" => h[c].refs = {}
  BY DEF Swept
<1>. QED  BY <1>1, <1>2, <1>5, <1>6, <1>7, <1>8 DEF Swept, Gone

\* Its own steps.
LEMMA ResolveSweeps ==
    ASSUME Basics, NEW c \in Conns, h'[c].pc = "gather", evt' = evt, Ev(c)' = Ev(c),
           h'[c].had = Found(evt, Resource(Name(c)))
    PROVE  Swept(c)'
<1>1. Name(c)' = Name(c)  BY DEF Name
<1>2. \A x \in h'[c].had : x \in evt' /\ Name(c) \in Values(x, "r")  BY PartIs DEF Found
<1>. QED  BY <1>1, <1>2 DEF Swept, Noted

LEMMA GatherSweeps ==
    ASSUME Basics, NEW c \in Conns, Turn(c), Sweeps(c), Swept(c), h[c].pc = "gather", h'[c].pc = "erase"
    PROVE  Swept(c)'
<1> DEFINE s == h'[c].todo
           r == Name(c)
<1>1. /\ evt' = evt /\ own' = own /\ h'[c].had = h[c].had /\ s \in QueryEvents(evt, Part(r)) /\ h'[c].old = s
      /\ h'[c].refs = h[c].refs \cup UNION {Refs(e) : e \in Range(s)}
  BY DEF Sweeps, Kept
<1>2. Name(c)' = r /\ scene' = scene /\ moves' = moves  BY DEF Turn, Turns, Frame, Name, Ev
<1>3. \A e \in h[c].had : r \in Values(e, "r") /\ Noted(c, e)  BY DEF Swept, Sweeping
<1>4. Len(s) # Batch => \A e \in evt : r \in Values(e, "r") => e \in Range(s)
  <2> HIDE DEF s, r
  <2>. QED  BY <1>1, BatchIs DEF Basics
<1> HIDE DEF s, r
<1>5. h'[c].had \cap evt' \subseteq Range(s) \/ Len(s) = Batch  BY <1>1, <1>3, <1>4
<1>6. \A e \in h'[c].had : Noted(c, e)'  BY <1>1, <1>2, <1>3 DEF Noted
<1>7. UNION {Refs(e) : e \in Range(s)} \subseteq h'[c].refs  BY <1>1
<1>8. h'[c].todo = s /\ h'[c].old = s  BY <1>1 DEF s
<1>. QED  BY <1>1, <1>2, <1>3, <1>5, <1>6, <1>7, <1>8 DEF Swept

LEMMA DoneSweeps ==
    ASSUME Basics, NEW c \in Conns, Turn(c), Sweeps(c), Swept(c), h[c].pc = "gather", h'[c].pc = "release"
    PROVE  Swept(c)'
<1> DEFINE s == <<>>
           r == Name(c)
<1>1. /\ evt' = evt /\ own' = own /\ h'[c].had = h[c].had /\ h'[c].refs = h[c].refs
      /\ s \in QueryEvents(evt, Part(r))
  BY DEF Sweeps, Same, Kept
<1>2. Name(c)' = r /\ scene' = scene /\ moves' = moves  BY DEF Turn, Turns, Frame, Name, Ev
<1>3. \A e \in h[c].had : r \in Values(e, "r") /\ Noted(c, e)  BY DEF Swept, Sweeping
<1>4. Len(s) # Batch /\ Range(s) = {}  BY NothingIn, CascadeAssumption
<1> HIDE DEF s, r
<1>5. Len(s) # Batch => \A e \in evt : r \in Values(e, "r") => e \in Range(s)  BY <1>1, BatchIs DEF Basics
<1>6. h'[c].had \cap evt' = {}  BY <1>1, <1>3, <1>4, <1>5
<1>7. \A e \in h'[c].had : Noted(c, e)'  BY <1>1, <1>2, <1>3 DEF Noted
<1>. QED  BY <1>1, <1>2, <1>3, <1>6, <1>7 DEF Swept, Gone

LEMMA EraseSweeps ==
    ASSUME Basics, NEW c \in Conns, Turn(c), Sweeps(c), Swept(c), h[c].pc = "erase",
           h'[c].pc \in {"erase", "gather", "release"}, faults' = 0
    PROVE  Swept(c)'
<1>1. h[c].todo # <<>> /\ h[c].todo \in Seq(All(scene)) /\ faults \in Nat
  BY HandlerIs DEF Basics, Task, Shape
<1> DEFINE first == h[c].todo[1]
           rest  == Tail(h[c].todo)
<1>2. /\ first \in Range(h[c].todo) /\ Range(rest) \subseteq Range(h[c].todo)
      /\ \A x \in Range(h[c].todo) : x = first \/ x \in Range(rest)
  BY <1>1, TailIs
<1>3. own' = own /\ evt' = {e \in evt : e.id # first.id}
  <2>1. evt' = {e \in evt : e.id # first.id} \/ faults' = faults + 1  BY DEF Sweeps
  <2>. QED  BY <1>1, <2>1 DEF Sweeps
<1>4. h'[c].had = h[c].had /\ h'[c].refs = h[c].refs /\ h'[c].pass = h[c].pass
  BY DEF Sweeps, Same, Kept
<1>5. h'[c].pc = "erase" => h'[c].old = h[c].old /\ h'[c].todo = rest  BY DEF Sweeps
<1>6. h'[c].pc = "release" => rest = <<>> /\ ~(Len(h[c].old) = Batch /\ h[c].pass < MaxPasses)  BY DEF Sweeps, Again
<1>7. Name(c)' = Name(c) /\ scene' = scene /\ moves' = moves  BY DEF Turn, Turns, Frame, Name, Ev
<1>8. /\ \A e \in h[c].had : Name(c) \in Values(e, "r") /\ Noted(c, e)
      /\ UNION {Refs(e) : e \in Range(h[c].todo)} \subseteq h[c].refs
      /\ h[c].had \cap evt \subseteq Range(h[c].todo) \/ Len(h[c].old) = Batch
  BY DEF Swept, Sweeping
<1>9. ASSUME NEW e \in h[c].had PROVE Noted(c, e)'
  <2>1. CASE e \in evt /\ e \notin evt'
    <3>1. e = first  BY <1>3, <2>1 DEF Turn, Events
    <3>2. Refs(e) \subseteq h[c].refs  BY <1>2, <1>8, <3>1
    <3>. QED  BY <1>4, <3>2 DEF Noted
  <2>2. CASE e \notin evt \/ e \in evt'  BY <1>3, <1>4, <1>7, <1>8, <2>2 DEF Noted
  <2>. QED  BY <2>1, <2>2
<1>10. h[c].had \cap evt' \subseteq Range(rest) \/ Len(h[c].old) = Batch
  <2>1. first \notin evt' /\ evt' \subseteq evt  BY <1>3
  <2>. QED  BY <1>2, <1>8, <2>1
<1>11. UNION {Refs(e) : e \in Range(rest)} \subseteq h[c].refs  BY <1>2, <1>8
<1>12. h'[c].pc = "release" => Gone(c)'
  <2> SUFFICES ASSUME h'[c].pc = "release" PROVE Gone(c)'  OBVIOUS
  <2>1. Range(rest) = {}  BY <1>6, NothingIn
  <2>. QED  BY <1>4, <1>6, <1>10, <2>1 DEF Gone
<1> HIDE DEF first, rest
<1>. QED  BY <1>4, <1>5, <1>7, <1>8, <1>9, <1>10, <1>11, <1>12 DEF Swept

LEMMA ReleaseSweeps ==
    ASSUME Basics, NEW c \in Conns, Turn(c), Sweeps(c), Swept(c), h[c].pc = "release",
           h'[c].pc \in {"release", "put"}, h'[c].pc = "put" => Ev(c).kind = 72, faults' = 0
    PROVE  Swept(c)'
<1>1. Name(c)' = Name(c) /\ scene' = scene /\ moves' = moves /\ faults \in Nat
  BY DEF Turn, Turns, Frame, Name, Ev, Basics, Shape
<1>2. (\A e \in h[c].had : Name(c) \in Values(e, "r") /\ Noted(c, e)) /\ Gone(c)  BY DEF Swept, Sweeping
<1>3. CASE h'[c].pc = "put"
  <2>1. evt' = evt /\ h'[c].had = h[c].had /\ h'[c].refs = h[c].refs /\ h'[c].pass = h[c].pass /\ h[c].refs = {}
    BY <1>3 DEF Sweeps, Same, Kept
  <2>2. own' \subseteq own  BY DEF Turn, Frees
  <2>. QED  BY <1>1, <1>2, <1>3, <2>1, <2>2 DEF Swept, Gone, Noted
<1>4. CASE h'[c].pc = "release"
  <2>1. evt' = evt /\ h'[c].had = h[c].had /\ h'[c].pass = h[c].pass  BY <1>4 DEF Sweeps, Kept
  <2>2. PICK ref \in h[c].refs : h'[c].refs = h[c].refs \ {ref} /\ own' = own \ {ref}
    <3>1. GivesUp(c)  BY <1>4 DEF Sweeps
    <3>. QED  BY <1>1, <3>1 DEF GivesUp
  <2>3. \A e \in h[c].had : Noted(c, e)'  BY <1>1, <1>2, <2>1, <2>2 DEF Noted
  <2>. QED  BY <1>1, <1>2, <1>4, <2>1, <2>3 DEF Swept, Gone
<1>. QED  BY <1>3, <1>4

LEMMA SweepStep ==
    ASSUME Basics, Upcoming, AllSwept, NEW e \in Conns, Turn(e), Sweeps(e)
    PROVE  AllSwept'
<1>1. scene' = scene /\ (faults' = 0 => faults = 0)  BY DEF Turn, Frame
<1> SUFFICES ASSUME SentOnce(scene), InTurn(scene), faults' = 0, NEW c \in Conns PROVE Swept(c)'
  BY <1>1 DEF AllSwept
<1>2. Swept(c)  BY <1>1 DEF AllSwept
<1>3. CASE c # e  BY <1>2, <1>3, OthersSweep
<1>4. CASE c = e
  <2>0. Turn(c) /\ Sweeps(c)  BY <1>4
  <2>1. CASE h'[c].pc = "gather"
    <3>1. Ev(c)' = Ev(c)  BY <2>0, <2>1 DEF Turn, Turns, Frame, Ev
    <3>2. CASE h[c].pc = "erase"  BY <1>2, <2>0, <2>1, <3>2, EraseSweeps
    <3>3. CASE evt' = evt /\ h'[c].had = Found(evt, Resource(Name(c)))  BY <2>1, <3>1, <3>3, ResolveSweeps
    <3>. QED  BY <2>0, <2>1, <3>2, <3>3 DEF Sweeps
  <2>2. CASE h'[c].pc = "erase"
    <3>1. CASE h[c].pc = "gather"  BY <1>2, <2>0, <2>2, <3>1, GatherSweeps
    <3>2. CASE h[c].pc = "erase"  BY <1>2, <2>0, <2>2, <3>2, EraseSweeps
    <3>. QED  BY <2>0, <2>2, <3>1, <3>2 DEF Sweeps
  <2>3. CASE h'[c].pc = "release"
    <3>1. CASE h[c].pc = "gather"  BY <1>2, <2>0, <2>3, <3>1, DoneSweeps
    <3>2. CASE h[c].pc = "erase"  BY <1>2, <2>0, <2>3, <3>2, EraseSweeps
    <3>3. CASE h[c].pc = "release"  BY <1>2, <2>0, <2>3, <3>3, ReleaseSweeps
    <3>. QED  BY <2>0, <2>3, <3>1, <3>2, <3>3 DEF Sweeps
  <2>4. CASE h'[c].pc = "put" /\ Ev(c)'.kind = 72
    <3>1. Ev(c)' = Ev(c)  BY <2>0, <2>4 DEF Turn, Turns, Frame, Ev
    <3>2. h[c].pc = "release"  BY <2>0, <2>4, <3>1 DEF Sweeps
    <3>. QED  BY <1>2, <2>0, <2>4, <3>1, <3>2, ReleaseSweeps
  <2>. QED  BY <2>1, <2>2, <2>3, <2>4 DEF Swept, Sweeping
<1>. QED  BY <1>3, <1>4

LEMMA MoveSweeps ==
    ASSUME Basics, AllSwept, Upload \/ Claim
    PROVE  AllSwept'
<1>1. /\ scene' = scene /\ evt' = evt /\ h' = h /\ faults' = faults /\ moves' \subseteq moves
      /\ moves \subseteq scene.moves
  BY MoveIs DEF Basics, Shape
<1>2. \A x \in own' : x \in own \/ \E m \in moves : m \notin moves' /\ x = <<m[2], m[3]>>  BY MoveIs
<1>3. own' \subseteq own \cup Came(scene, moves')  BY <1>1, <1>2 DEF Came
<1>4. Came(scene, moves) \subseteq Came(scene, moves')  BY <1>1 DEF Came
<1> SUFFICES ASSUME SentOnce(scene), InTurn(scene), faults = 0, NEW c \in Conns PROVE Swept(c)'
  BY <1>1 DEF AllSwept
<1>5. Swept(c)  BY DEF AllSwept
<1>6. Name(c)' = Name(c) /\ Ev(c)' = Ev(c) /\ Sweeping(c)' = Sweeping(c)  BY <1>1 DEF Name, Ev, Sweeping
<1>7. \A e : Noted(c, e) => Noted(c, e)'
  <2> SUFFICES ASSUME NEW e, Noted(c, e) PROVE Noted(c, e)'  OBVIOUS
  <2>1. CASE e \in evt  BY <1>1, <2>1 DEF Noted
  <2>2. CASE Refs(e) \cap own \subseteq h[c].refs \cup Came(scene, moves)
    <3>1. Refs(e) \cap own' \subseteq h[c].refs \cup Came(scene, moves')  BY <1>3, <1>4, <2>2
    <3>. QED  BY <1>1, <3>1 DEF Noted
  <2>. QED  BY <2>1, <2>2 DEF Noted
<1>8. Gone(c)' = Gone(c)  BY <1>1 DEF Gone
<1>. QED  BY <1>1, <1>5, <1>6, <1>7, <1>8 DEF Swept

SweepInv == KeepsInv /\ AllSwept

LEMMA SweepNext ==
    ASSUME SweepInv, [Next]_vars
    PROVE  SweepInv'
<1>1. Basics /\ Upcoming /\ KeepsInv /\ KeepsInv' /\ AllSwept  BY KeepsNext DEF SweepInv, KeepsInv
<1>2. CASE \E c \in Conns : Step(c)
  <2>1. PICK c \in Conns : Step(c)  BY <1>2
  <2>2. Turn(c) /\ Sweeps(c)  BY <1>1, <2>1, StepTurn, StepWays
  <2>. QED  BY <1>1, <2>2, SweepStep DEF SweepInv
<1>3. CASE Upload \/ Claim  BY <1>1, <1>3, MoveSweeps DEF SweepInv
<1>4. CASE Restart
  <2>1. \A c \in Conns : Stopped(c)  BY <1>1, <1>4, RestartIs DEF Basics
  <2>2. \A c \in Conns : ~Sweeping(c)'  BY <2>1 DEF Stopped, Sweeping
  <2>. QED  BY <1>1, <2>2 DEF AllSwept, Swept, SweepInv
<1>5. CASE UNCHANGED vars
  <2>1. scene' = scene /\ evt' = evt /\ h' = h /\ faults' = faults /\ own' = own /\ moves' = moves  BY <1>5 DEF vars
  <2>2. \A c \in Conns : Swept(c)' = Swept(c)  BY <2>1 DEF Swept, Sweeping, Name, Ev, Noted, Gone
  <2>. QED  BY <1>1, <2>1, <2>2 DEF AllSwept, SweepInv
<1>. QED  BY <1>2, <1>3, <1>4, <1>5 DEF Next

\* A cascade that met no failure and did not run out of passes has removed
\* what it found, and the authors gave up the DAGs.
THEOREM CascadesComplete ==
    ASSUME \A s \in Scenes : Regular(s) /\ Orderly(s) /\ Settled(s) /\ SentOnce(s) /\ InTurn(s)
    PROVE  Spec => []CascadeComplete
<1>1. Init => SweepInv
  <2> SUFFICES ASSUME Init PROVE SweepInv  OBVIOUS
  <2>1. KeepsInv  BY KeepsInit
  <2>2. \A c \in Conns : ~Sweeping(c)  BY InitIs DEF Sweeping
  <2>. QED  BY <2>1, <2>2 DEF SweepInv, AllSwept, Swept
<1>2. SweepInv /\ [Next]_vars => SweepInv'  BY SweepNext
<1>3. SweepInv => CascadeComplete
  <2> SUFFICES ASSUME SweepInv, NEW c \in Conns, h[c].pc = "put", Ev(c).kind = 72, faults = 0, h[c].pass < MaxPasses
               PROVE  /\ h[c].had \cap evt = {}
                      /\ (UNION {GaveUp(e) : e \in h[c].had}) \cap own
                            \subseteq {<<m[2], m[3]>> : m \in scene.moves \ moves}
    BY DEF CascadeComplete
  <2>1. SentOnce(scene) /\ InTurn(scene)  BY DEF SweepInv, KeepsInv, Basics, Shape
  <2>2. Swept(c)  BY <2>1 DEF SweepInv, AllSwept
  <2>3. Gone(c) /\ h[c].refs = {} /\ \A e \in h[c].had : Noted(c, e)  BY <2>2 DEF Swept, Sweeping
  <2>4. h[c].had \cap evt = {}  BY <2>3 DEF Gone
  <2>5. ASSUME NEW e \in h[c].had PROVE GaveUp(e) \cap own \subseteq Came(scene, moves)
    <3>1. GaveUp(e) = Refs(e)  BY DEF GaveUp, Refs, RefTags
    <3>2. e \notin evt  BY <2>4
    <3>3. Refs(e) \cap own \subseteq h[c].refs \cup Came(scene, moves)  BY <2>3, <3>2 DEF Noted
    <3>4. h[c].refs = {}  BY <2>3
    <3>. QED  BY <3>1, <3>3, <3>4
  <2>. QED  BY <2>4, <2>5 DEF Came
<1>. QED  BY <1>1, <1>2, <1>3, PTL DEF Spec

-----------------------------------------------------------------------------
(* Social graphs are kept and given up *)

Graphs == {w \in DOMAIN Files : Files[w].wot}

LEMMA UnreferredIs ==
    ASSUME Shape, NEW w, w # None
    PROVE  Unreferred(w) <=> ~\E e \in evt : Refers(e, w)
<1> DEFINE f == UpTo(31415, "wot_file", w, 1)
           n == "wot_file"
<1>1. Timed(evt) /\ evt \subseteq All(scene)  BY TimedEvents DEF Shape
<1>2. /\ Proper(f) /\ f.ids = <<>>
      /\ \A x : Matches(x, f) <=> x.kind = 31415 /\ w \in Values(x, "wot_file")
  BY TaggedIs
<1>3. PICK s : QueryEvents(evt, f) = {s}
  <2> DEFINE t == Cut(Scan(evt, Prefix(31415, "wot_file", w), f), Limit(f))
  <2>1. QueryEvents(evt, f) = {t}  BY OneScan
  <2> HIDE DEF t
  <2>. QED  BY <2>1
<1>4. Unreferred(w) <=> s = <<>>  BY <1>3 DEF Unreferred, UpTo
<1> HIDE DEF f
<1>5. /\ s \in Seq(evt) /\ Len(s) \in Nat /\ DOMAIN s = 1..Len(s) /\ \A i \in DOMAIN s : s[i] \in Matching(evt, f)
      /\ s = <<>> => Matching(evt, f) = {}
  BY <1>1, <1>2, <1>3, AnswerIs
<1>6. \A e \in evt : e \in Matching(evt, f) <=> Refers(e, w)
  <2> SUFFICES ASSUME NEW e \in evt PROVE e.kind = 31415 => (w \in Values(e, n) <=> FirstTag(e, n) = w)
    BY <1>2 DEF Matching, Refers
  <2>1. e \in All(scene)  BY <1>1
  <2>2. ASSUME e.kind = 31415, w \in Values(e, n) PROVE FirstTag(e, n) = w
    BY <2>1, <2>2 DEF Shape, Orderly
  <2>3. ASSUME e.kind = 31415, FirstTag(e, n) = w PROVE w \in Values(e, n)
    <3>1. e.tags \in Seq(Range(e.tags)) /\ First(e, {n}) # None  BY <2>1, <2>3 DEF Shape, Regular, FirstTag
    <3>. QED  BY <2>3, <3>1, FirstIs DEF FirstTag
  <2>. QED  BY <2>2, <2>3
<1>7. s # <<>> => \E e \in evt : e \in Matching(evt, f)
  <2> SUFFICES ASSUME s # <<>> PROVE \E e \in evt : e \in Matching(evt, f)  OBVIOUS
  <2>1. Len(s) # 0  BY <1>5, EmptySeq
  <2>2. 1 \in DOMAIN s  BY <1>5, <2>1
  <2>3. s[1] \in Matching(evt, f)  BY <1>5, <2>2
  <2>. QED  BY <2>3 DEF Matching
<1>. QED  BY <1>4, <1>5, <1>6, <1>7

\* What the steps do to ownership records and to the versions that are gone through.
Owned(c) ==
    /\ own' = own \/ h[c].pc \in {"drop", "release"}
    /\ h[c].pc = "drop" => own' = {x \in own : x[1] # OldGraph(c)}
    /\ h'[c].pc = "put" /\ Ev(c).kind = 31415 =>
          FirstTag(Ev(c), "wot_file") = None \/ Owners(FirstTag(Ev(c), "wot_file")) # {}

Onward(c) == h'[c].pc = "orphan" /\ h'[c].old = Tail(h[c].old) /\ h[c].old # <<>>
Through(c) ==
    /\ h[c].pc = "clean" => h'[c].pc # "idle" /\ h'[c].old = h[c].old
    /\ h[c].pc = "clean" /\ h[c].todo # <<>> => h'[c].pc = "clean"
    /\ h[c].pc = "orphan" => \/ h'[c].pc = "idle" /\ h[c].old = <<>>
                             \/ h'[c].pc = "refs" /\ h'[c].old = h[c].old
                             \/ Onward(c) /\ ~Dropped(c)
    /\ h[c].pc = "refs" => \/ h'[c].pc = "drop" /\ h'[c].old = h[c].old /\ Unreferred(OldGraph(c))
                           \/ Onward(c) /\ ~Unreferred(OldGraph(c))
    /\ h[c].pc = "drop" => Onward(c)
    /\ h'[c].pc = "drop" => h[c].pc = "refs"

LEMMA CleaningWays ==
    ASSUME Shape, NEW c \in Conns, Task(c), Clean(c) \/ Forget(c) \/ LookForRefs(c) \/ Drop(c)
    PROVE  Owned(c) /\ Through(c)
<1>1. CASE Clean(c)
  <2>1. h[c].pc = "clean" /\ own' = own  BY <1>1 DEF Clean
  <2>2. CASE h[c].todo = <<>>
    <3>1. Goto(c, "orphan") /\ "orphan" \in Pcs  BY <1>1, <2>2 DEF Clean, Pcs
    <3>2. h'[c].pc = "orphan" /\ h'[c].old = h[c].old  BY <3>1, GotoFields
    <3>. QED  BY <2>1, <2>2, <3>2 DEF Owned, Through
  <2>3. CASE h[c].todo # <<>>
    <3>1. h'[c] = [h[c] EXCEPT !.todo = Tail(h[c].todo)]  BY <1>1, <2>3, ThenFields DEF Clean
    <3>2. h'[c].pc = "clean" /\ h'[c].old = h[c].old  BY <2>1, <3>1, HandlerIs DEF Handler
    <3>. QED  BY <2>1, <3>2 DEF Owned, Through
  <2>. QED  BY <2>2, <2>3
<1>2. CASE Forget(c)
  <2>1. h[c].pc = "orphan" /\ own' = own  BY <1>2 DEF Forget
  <2>2. CASE h[c].old = <<>>
    <3>1. h'[c].pc = "idle"  BY <1>2, <2>2, EndFields DEF Forget, Ok
    <3>. QED  BY <2>1, <2>2, <3>1 DEF Owned, Through
  <2>3. CASE h[c].old # <<>> /\ Dropped(c)
    <3>1. Goto(c, "refs") /\ "refs" \in Pcs  BY <1>2, <2>3 DEF Forget, Pcs
    <3>2. h'[c].pc = "refs" /\ h'[c].old = h[c].old  BY <3>1, GotoFields
    <3>. QED  BY <2>1, <3>2 DEF Owned, Through
  <2>4. CASE h[c].old # <<>> /\ ~Dropped(c)
    <3>1. h'[c] = [h[c] EXCEPT !.old = Tail(h[c].old)]  BY <1>2, <2>4, ThenFields DEF Forget
    <3>2. h'[c].pc = "orphan" /\ h'[c].old = Tail(h[c].old)  BY <2>1, <3>1, HandlerIs DEF Handler
    <3>. QED  BY <2>1, <2>4, <3>2 DEF Owned, Through, Onward
  <2>. QED  BY <2>2, <2>3, <2>4
<1>3. CASE LookForRefs(c)
  <2>1. h[c].pc = "refs" /\ own' = own /\ h[c].old # <<>>  BY <1>3 DEF LookForRefs, Task, Finds
  <2>2. CASE Unreferred(OldGraph(c))
    <3>1. Goto(c, "drop") /\ "drop" \in Pcs  BY <1>3, <2>2 DEF LookForRefs, Pcs
    <3>2. h'[c].pc = "drop" /\ h'[c].old = h[c].old  BY <3>1, GotoFields
    <3>. QED  BY <2>1, <2>2, <3>2 DEF Owned, Through
  <2>3. CASE ~Unreferred(OldGraph(c))
    <3>1. h'[c] = [h[c] EXCEPT !.pc = "orphan", !.old = Tail(h[c].old)]  BY <1>3, <2>3, ThenFields DEF LookForRefs
    <3>2. h'[c].pc = "orphan" /\ h'[c].old = Tail(h[c].old)  BY <3>1, HandlerIs DEF Handler
    <3>. QED  BY <2>1, <2>3, <3>2 DEF Owned, Through, Onward
  <2>. QED  BY <2>2, <2>3
<1>4. CASE Drop(c)
  <2>1. h[c].pc = "drop" /\ own' = {x \in own : x[1] # OldGraph(c)} /\ h[c].old # <<>>  BY <1>4 DEF Drop, Task, Finds
  <2>2. h'[c] = [h[c] EXCEPT !.pc = "orphan", !.old = Tail(h[c].old)]  BY <1>4, ThenFields DEF Drop
  <2>3. h'[c].pc = "orphan" /\ h'[c].old = Tail(h[c].old)  BY <2>2, HandlerIs DEF Handler
  <2>. QED  BY <2>1, <2>3 DEF Owned, Through, Onward
<1>. QED  BY <1>1, <1>2, <1>3, <1>4

LEMMA OtherWays ==
    ASSUME Shape, NEW c \in Conns, Task(c),
           Admit(c) \/ Query(c) \/ Put(c) \/ Resolve(c) \/ Gather(c) \/ Erase(c) \/ Release(c)
    PROVE  Owned(c) /\ Through(c)
<1>1. h[c].pc \in {"idle", "query", "put", "resolve", "gather", "erase", "release"} /\ (own' = own \/ h[c].pc = "release")
  <2>1. CASE Admit(c)
    <3>1. h[c].pc = "idle" /\ own' = own  BY <2>1 DEF Admit
    <3>. QED  BY <3>1
  <2>6. CASE Query(c)
    <3>1. h[c].pc = "query" /\ own' = own  BY <2>6 DEF Query
    <3>. QED  BY <3>1
  <2>2. CASE Put(c)  BY <2>2 DEF Put
  <2>3. CASE Resolve(c)  BY <2>3 DEF Resolve
  <2>4. CASE Gather(c) \/ Erase(c)  BY <2>4 DEF Gather, Erase
  <2>5. CASE Release(c)  BY <2>5 DEF Release
  <2>. QED  BY <2>1, <2>2, <2>3, <2>4, <2>5, <2>6
<1>2. h'[c].pc # "drop" /\ (h'[c].pc = "put" => Ev(c).kind # 31415)
  <2>1. Turn(c)  BY AdmitTurn, QueryTurn, PutTurn, ResolveTurn, GatherTurn, EraseTurn, ReleaseTurn
  <2>2. Writes(c)  BY AdmitWays, QueryWays, PutWays, ResolveWays, GatherWays, EraseWays, ReleaseWays
  <2>3. h'[c].pc \notin {"refs", "drop"}  BY <1>1, <2>2 DEF Writes
  <2>4. h'[c].pc = "put" => Ev(c).kind # 31415  BY <1>1, <2>2 DEF Writes
  <2>. QED  BY <2>3, <2>4
<1>. QED  BY <1>1, <1>2 DEF Owned, Through

LEMMA BindingWays ==
    ASSUME Shape, NEW c \in Conns, Task(c), Verify(c) \/ Bind(c)
    PROVE  Owned(c) /\ Through(c)
<1>1. own' = own /\ h[c].pc \in {"verify", "bind"}  BY DEF Verify, Bind
<1>2. CASE Refuse(c)
  <2>1. h'[c].pc = "idle"  BY <1>2, EndFields DEF Refuse
  <2>. QED  BY <1>1, <2>1 DEF Owned, Through
<1>3. CASE Verify(c) /\ FirstTag(Ev(c), "wot_file") = None /\ Goto(c, "put")
  <2>1. "put" \in Pcs  BY DEF Pcs
  <2>2. h'[c].pc = "put"  BY <1>3, <2>1, GotoFields
  <2>. QED  BY <1>1, <1>3, <2>2 DEF Owned, Through
<1>4. CASE Goto(c, "bind")
  <2>1. "bind" \in Pcs  BY DEF Pcs
  <2>2. h'[c].pc = "bind"  BY <1>4, <2>1, GotoFields
  <2>. QED  BY <1>1, <2>2 DEF Owned, Through
<1>5. CASE Bind(c) /\ Bindable(c, FirstTag(Ev(c), "wot_file")) /\ Goto(c, "put")
  <2>1. "put" \in Pcs /\ h[c].pc = "bind" /\ Owners(FirstTag(Ev(c), "wot_file")) # {}  BY <1>5 DEF Pcs, Bind, Bindable
  <2>2. h'[c].pc = "put"  BY <1>5, <2>1, GotoFields
  <2>. QED  BY <1>1, <2>1, <2>2 DEF Owned, Through
<1>6. CASE Verify(c)
  <2>1. Refuse(c) \/ (FirstTag(Ev(c), "wot_file") = None /\ Goto(c, "put")) \/ Goto(c, "bind")  BY <1>6 DEF Verify
  <2>. QED  BY <1>2, <1>3, <1>4, <1>6, <2>1
<1>7. CASE Bind(c)
  <2>1. Refuse(c) \/ (Bindable(c, FirstTag(Ev(c), "wot_file")) /\ Goto(c, "put"))  BY <1>7 DEF Bind
  <2>. QED  BY <1>2, <1>5, <1>7, <2>1
<1>. QED  BY <1>6, <1>7

LEMMA StepOwns ==
    ASSUME Basics, NEW c \in Conns, Step(c)
    PROVE  Owned(c) /\ Through(c)
<1>1. Shape /\ Task(c)  BY DEF Basics
<1>. QED  BY <1>1, CleaningWays, OtherWays, BindingWays DEF Step

\* A graph that a stored event refers to, or one about to be stored, has an
\* owner, and one that is about to be given up is referred to by none.
Carried(w) ==
    /\ (\E e \in evt : Refers(e, w)) => Owners(w) # {}
    /\ \A c \in Conns : h[c].pc = "put" /\ Refers(Ev(c), w) => Owners(w) # {}
    /\ \A c \in Conns : h[c].pc = "drop" /\ OldGraph(c) = w => ~\E e \in evt : Refers(e, w)
AllBound == Alone => \A w \in Graphs : Carried(w)

\* Those that were referred to once are given up, or about to be looked at.
Calmly == Undisturbed /\ ~\E e \in Sent : e.kind = 72
Seen(e) == e \in scene.evt \/ (e \in Sent /\ e.id \in oks) \/ \E c \in Conns : h[c].pc \in Cleaning /\ e = Ev(c)
Pending(c, w) ==
    /\ h[c].pc \in Cleaning /\ w # FirstTag(Ev(c), "wot_file")
    /\ \E i \in DOMAIN h[c].old : h[c].old[i].id # Ev(c).id /\ FirstTag(h[c].old[i], "wot_file") = w
Moved(w) == \E m \in scene.moves \ moves : m[2] = w
Leftover(w) ==
    (\E e \in All(scene) : Seen(e) /\ Refers(e, w)) /\ ~(\E e \in evt : Refers(e, w)) /\ ~Moved(w)
       => Owners(w) = {} \/ \E c \in Conns : Pending(c, w)
Cleared ==
    Calmly => /\ \A c \in Conns : h[c].pc \in Cleaning => Ev(c) \in evt
              /\ \A w \in Graphs : Leftover(w)

LEMMA GraphIs ==
    ASSUME NEW w \in Graphs
    PROVE  w # None
BY RulesAssumption DEF Graphs

LEMMA OwnersAre ==
    ASSUME NEW w, \A y : y[1] = w => (y \in own' <=> y \in own)
    PROVE  Owners(w)' = Owners(w)
<1>1. {y \in own' : y[1] = w} = {y \in own : y[1] = w}  OBVIOUS
<1>. QED  BY <1>1 DEF Owners

\* Ownership records of a social graph only go when it is given up.
LEMMA OwnersStep ==
    ASSUME Basics, NEW e \in Conns, Turn(e), Owned(e), NEW w \in Graphs
    PROVE  Owners(w)' = Owners(w) \/ (h[e].pc = "drop" /\ OldGraph(e) = w /\ Owners(w)' = {})
<1>1. CASE h[e].pc = "drop" /\ OldGraph(e) = w
  <2>1. own' = {x \in own : x[1] # w}  BY <1>1 DEF Owned
  <2>2. {y \in own' : y[1] = w} = {}  BY <2>1
  <2>3. Owners(w)' = {}  BY <2>2 DEF Owners
  <2>. QED  BY <1>1, <2>3
<1>2. CASE ~(h[e].pc = "drop" /\ OldGraph(e) = w)
  <2>1. ASSUME NEW y, y[1] = w PROVE y \in own' <=> y \in own
    <3>1. own' \subseteq own  BY DEF Turn, Frees
    <3>2. ASSUME y \in own, y \notin own' PROVE FALSE
      <4>1. h[e].pc = "release" /\ y \in h[e].refs  BY <1>2, <2>1, <3>2 DEF Turn, Frees
      <4>2. h[e].refs \subseteq UNION {Refs(x) : x \in All(scene)}
        <5>1. h[e] \in Handler(scene)  BY HandlerIs DEF Basics
        <5>. QED  BY <5>1 DEF Handler
      <4>3. PICK x \in All(scene) : y \in Refs(x)  BY <4>1, <4>2
      <4>4. y[1] \notin {v \in DOMAIN Files : Files[v].wot}  BY <4>3 DEF Basics, Shape, Orderly
      <4>. QED  BY <2>1, <4>4 DEF Graphs
    <3>. QED  BY <3>1, <3>2
  <2>. QED  BY <2>1, OwnersAre
<1>. QED  BY <1>1, <1>2

\* The handler looked before it drops.
LEMMA DropIs ==
    ASSUME Basics, NEW e \in Conns, Turn(e), Through(e), h'[e].pc = "drop", NEW w, OldGraph(e)' = w, NEW x \in evt'
    PROVE  ~Refers(x, w)
<1>1. /\ h[e].pc = "refs" /\ h'[e].old = h[e].old /\ Unreferred(OldGraph(e))  BY DEF Through, Onward
<1>2. OldGraph(e) = w  BY <1>1 DEF OldGraph
<1>3. w # None  BY <1>1, <1>2 DEF Basics, Task, Finds, Dropped
<1>4. x \in evt  BY <1>1 DEF Turn, Events
<1>. QED  BY <1>1, <1>2, <1>3, <1>4, UnreferredIs DEF Basics

LEMMA BoundStep ==
    ASSUME Basics, Alone, NEW e \in Conns, scene.script[e] # <<>>, Turn(e), Owned(e), Through(e),
           NEW w \in Graphs, Carried(w)
    PROVE  Carried(w)'
<1>1. ASSUME NEW d \in Conns, d # e PROVE h'[d].pc = "idle"
  <2>1. h[d].pc = "idle"  BY <1>1, OneSends
  <2>. QED  BY <1>1, <2>1 DEF Turn, Frame
<1>2. ASSUME NEW c \in Conns, h'[c].pc = "drop", OldGraph(c)' = w PROVE ~\E x \in evt' : Refers(x, w)
  <2>1. c = e  BY <1>1, <1>2
  <2>2. h'[e].pc = "drop" /\ OldGraph(e)' = w  BY <1>2, <2>1
  <2>. QED  BY <2>2, DropIs
<1>3. ASSUME NEW x \in evt', x \notin evt PROVE h[e].pc = "put" /\ x = Ev(e)  BY <1>3 DEF Turn, Events
<1>4. CASE Owners(w)' = Owners(w)
  <2>1. ASSUME NEW x \in evt', Refers(x, w) PROVE Owners(w)' # {}
    <3>1. CASE x \in evt  BY <1>4, <2>1, <3>1 DEF Carried
    <3>2. CASE x \notin evt  BY <1>3, <1>4, <2>1, <3>2 DEF Carried
    <3>. QED  BY <3>1, <3>2
  <2>2. ASSUME NEW c \in Conns, h'[c].pc = "put", Refers(Ev(c), w)' PROVE Owners(w)' # {}
    <3>1. c = e  BY <1>1, <2>2
    <3>2. Ev(e)' = Ev(e)  BY <2>2, <3>1 DEF Turn, Turns, Frame, Ev
    <3>3. Ev(e).kind = 31415 /\ FirstTag(Ev(e), "wot_file") = w  BY <2>2, <3>1, <3>2 DEF Refers
    <3>4. w = None \/ Owners(w) # {}  BY <2>2, <3>1, <3>3 DEF Owned
    <3>. QED  BY <1>4, <3>4, GraphIs
  <2>. QED  BY <1>2, <2>1, <2>2 DEF Carried, Refers
<1>5. CASE h[e].pc = "drop" /\ OldGraph(e) = w /\ Owners(w)' = {}
  <2>1. ASSUME NEW x \in evt', Refers(x, w) PROVE FALSE
    <3>1. x \in evt  BY <1>3, <1>5
    <3>. QED  BY <1>5, <2>1, <3>1 DEF Carried
  <2>2. h'[e].pc = "orphan"  BY <1>5 DEF Through, Onward
  <2>3. \A c \in Conns : h'[c].pc # "put"  BY <1>1, <2>2
  <2>. QED  BY <1>2, <2>1, <2>3 DEF Carried, Refers
<1>. QED  BY <1>4, <1>5, OwnersStep

\* A version that is still to be looked at is looked at.
LEMMA PendingStep ==
    ASSUME Basics, NEW e \in Conns, Turn(e), Owned(e), Through(e), NEW w \in Graphs,
           Pending(e, w), ~\E x \in evt : Refers(x, w)
    PROVE  Pending(e, w)' \/ Owners(w)' = {}
<1>1. PICK i \in DOMAIN h[e].old : h[e].old[i].id # Ev(e).id /\ FirstTag(h[e].old[i], "wot_file") = w
  BY DEF Pending
<1>2. w # None /\ h[e].pc \in Cleaning /\ w # FirstTag(Ev(e), "wot_file")  BY GraphIs DEF Pending
<1>3. h[e].old \in Seq(All(scene)) /\ h[e].old # <<>> /\ DOMAIN h[e].old = 1..Len(h[e].old) /\ Len(h[e].old) \in Nat
  <2>1. h[e].old \in Seq(All(scene))  BY HandlerIs DEF Basics
  <2>. QED  BY <1>1, <2>1, LenProperties
<1>4. ASSUME h'[e].old = h[e].old, h'[e].pc \in Cleaning PROVE Pending(e, w)'
  <2>1. Ev(e)' = Ev(e)  BY <1>4 DEF Turn, Turns, Frame, Ev, Cleaning
  <2>. QED  BY <1>1, <1>2, <1>4, <2>1 DEF Pending
<1>5. ASSUME Onward(e), i # 1 PROVE Pending(e, w)'
  <2> DEFINE old == h[e].old  rest == Tail(h[e].old)
  <2>1. h'[e].old = rest /\ h'[e].pc \in Cleaning  BY <1>5 DEF Onward, Cleaning
  <2>2. Ev(e)' = Ev(e)  BY <2>1 DEF Turn, Turns, Frame, Ev, Cleaning
  <2>3. /\ rest \in Seq(All(scene)) /\ Len(rest) = Len(old) - 1
        /\ \A j \in 1..(Len(old) - 1) : rest[j] = old[j + 1]
    BY <1>3, HeadTailProperties
  <2>4. DOMAIN rest = 1..(Len(old) - 1)  BY <2>3, LenProperties
  <2>5. i - 1 \in 1..(Len(old) - 1) /\ (i - 1) + 1 = i  BY <1>3, <1>5
  <2>6. i - 1 \in DOMAIN rest /\ rest[i - 1] = old[i]  BY <2>3, <2>4, <2>5
  <2> HIDE DEF old, rest
  <2>7. old[i].id # Ev(e).id /\ FirstTag(old[i], "wot_file") = w  BY <1>1 DEF old
  <2>. QED  BY <1>2, <2>1, <2>2, <2>6, <2>7 DEF Pending
<1>6. i = 1 => OldGraph(e) = w /\ Dropped(e)  BY <1>1, <1>2 DEF OldGraph, Dropped
<1>7. CASE h[e].pc = "clean"
  <2>1. h'[e].pc \in Cleaning \cup {"idle"}  BY <1>2 DEF Turn, Turns
  <2>. QED  BY <1>4, <1>7, <2>1 DEF Through
<1>8. CASE h[e].pc = "orphan"
  <2>1. CASE h'[e].pc = "refs" /\ h'[e].old = h[e].old  BY <1>4, <2>1 DEF Cleaning
  <2>2. CASE Onward(e) /\ ~Dropped(e)  BY <1>5, <1>6, <2>2
  <2>. QED  BY <1>3, <1>8, <2>1, <2>2 DEF Through
<1>9. CASE h[e].pc = "refs"
  <2>1. CASE h'[e].pc = "drop" /\ h'[e].old = h[e].old  BY <1>4, <2>1 DEF Cleaning
  <2>2. CASE Onward(e) /\ ~Unreferred(OldGraph(e))
    <3>1. i # 1  BY <1>2, <1>6, <2>2, UnreferredIs DEF Basics
    <3>. QED  BY <1>5, <2>2, <3>1
  <2>. QED  BY <1>9, <2>1, <2>2 DEF Through
<1>10. CASE h[e].pc = "drop"
  <2>1. Onward(e)  BY <1>10 DEF Through
  <2>2. CASE i # 1  BY <1>5, <2>1, <2>2
  <2>3. CASE i = 1
    <3>1. own' = {x \in own : x[1] # w}  BY <1>6, <1>10, <2>3 DEF Owned
    <3>2. {y \in own' : y[1] = w} = {}  BY <3>1
    <3>. QED  BY <3>2 DEF Owners
  <2>. QED  BY <2>2, <2>3
<1>. QED  BY <1>2, <1>7, <1>8, <1>9, <1>10 DEF Cleaning

\* The handler has stored its event when it goes through the others.
LEMMA StoredStep ==
    ASSUME Basics, Cleared, Calmly, NEW e \in Conns, scene.script[e] # <<>>, Turn(e),
           NEW c \in Conns, h'[c].pc \in Cleaning
    PROVE  Ev(c)' \in evt'
<1>1. c = e
  <2>. SUFFICES ASSUME c # e PROVE FALSE  OBVIOUS
  <2>1. h[c].pc = "idle" /\ h'[c] = h[c]  BY OneSends DEF Calmly, Undisturbed, Turn, Frame
  <2>. QED  BY <2>1 DEF Cleaning
<1>2. Ev(e)' = Ev(e)  BY <1>1 DEF Turn, Turns, Frame, Ev, Cleaning
<1>3. CASE h[e].pc \in Cleaning
  <2>1. Ev(e) \in evt /\ h[e].pc # "erase"  BY <1>3 DEF Cleared, Cleaning
  <2>2. Ev(e) \in evt'  BY <2>1 DEF Turn, Events
  <2>. QED  BY <1>1, <1>2, <2>2
<1>4. CASE h[e].pc \notin Cleaning
  <2>1. Ev(e) \in evt'  BY <1>1, <1>4 DEF Turn, Turns
  <2>. QED  BY <1>1, <1>2, <2>1
<1>. QED  BY <1>3, <1>4

\* What is seen after a step was seen before, or is stored.
LEMMA SeenStep ==
    ASSUME Basics, Cleared, Calmly, NEW e \in Conns, scene.script[e] # <<>>, Turn(e),
           NEW x \in All(scene), Seen(x)', x.kind = 31415
    PROVE  Seen(x) \/ x \in evt'
<1>1. scene' = scene /\ Sent' = Sent  BY DEF Turn, Frame, Sent
<1>2. CASE x \in scene.evt  BY <1>2 DEF Seen
<1>3. CASE x \in Sent /\ x.id \in oks' /\ x.id \notin oks
  <2>1. x.id = Ev(e).id /\ (h[e].pc = "orphan" \/ (h[e].pc = "put" /\ Ev(e).kind # 31415))
    BY <1>3 DEF Turn, Acks
  <2>2. Ev(e) \in All(scene)
    <3>1. h[e].pos \in DOMAIN scene.script[e]  BY <2>1 DEF Basics, Task
    <3>. QED  BY <3>1, EvIs DEF Basics
  <2>3. x = Ev(e)  BY <2>1, <2>2 DEF Basics, Shape, Regular
  <2>4. h[e].pc \in Cleaning  BY <2>1, <2>3 DEF Cleaning
  <2>. QED  BY <2>3, <2>4 DEF Seen
<1>4. CASE \E c \in Conns : h'[c].pc \in Cleaning /\ x = Ev(c)'  BY <1>4, StoredStep
<1>5. CASE x \in Sent /\ x.id \in oks  BY <1>5 DEF Seen
<1>. QED  BY <1>1, <1>2, <1>3, <1>4, <1>5 DEF Seen

LEMMA LeftoverStep ==
    ASSUME Basics, Cleared, Calmly, NEW e \in Conns, scene.script[e] # <<>>, Turn(e), Owned(e), Through(e),
           NEW w \in Graphs
    PROVE  Leftover(w)'
<1>1. scene' = scene /\ moves' = moves  BY DEF Turn, Frame
<1>2. All(scene)' = All(scene)  BY <1>1 DEF All, SentBy
<1> SUFFICES ASSUME NEW x \in All(scene), Seen(x)', Refers(x, w), \A y \in evt' : ~Refers(y, w), ~Moved(w)
             PROVE  Owners(w)' = {} \/ \E c \in Conns : Pending(c, w)'
  BY <1>1, <1>2 DEF Leftover, Moved, Refers
<1>3. Seen(x)
  <2>1. x.kind = 31415  BY DEF Refers
  <2>. QED  BY <2>1, SeenStep
<1>4. CASE \E y \in evt : Refers(y, w)
  <2>1. PICK y \in evt : Refers(y, w) /\ y \notin evt'  BY <1>4
  <2>2. h[e].pc # "erase"
    <3>. SUFFICES ASSUME h[e].pc = "erase" PROVE FALSE  OBVIOUS
    <3>1. Ev(e).kind = 72 /\ h[e].pos \in DOMAIN scene.script[e]  BY DEF Basics, Task, Removing
    <3>2. Ev(e) \in Sent  BY <3>1, EvIs DEF Basics
    <3>. QED  BY <3>1, <3>2 DEF Calmly
  <2>3. h[e].pc = "clean" /\ h[e].todo # <<>> /\ y = h[e].todo[1] /\ y # Ev(e)  BY <2>1, <2>2 DEF Turn, Events
  <2>4. y \in Range(h[e].old)
    <3>1. h[e].todo \in Seq(All(scene))  BY HandlerIs DEF Basics
    <3>2. y \in Range(h[e].todo)  BY <2>3, <3>1, TailIs
    <3>. QED  BY <2>3, <3>2 DEF Basics, Task, Finds
  <2>5. PICK i \in DOMAIN h[e].old : y = h[e].old[i]  BY <2>4 DEF Range
  <2>6. h'[e].old = h[e].old /\ h'[e].pc \in Cleaning  BY <2>3 DEF Through, Cleaning
  <2>7. Ev(e)' = Ev(e)  BY <2>6 DEF Turn, Turns, Frame, Ev, Cleaning
  <2>8. Ev(e) \in evt' /\ Ev(e).kind = 31415 /\ Ev(e) \in All(scene) /\ y \in All(scene)
    <3>1. Ev(e)' \in evt'  BY <2>6, StoredStep
    <3>2. Ev(e).kind = 31415 /\ h[e].pos \in DOMAIN scene.script[e]  BY <2>3 DEF Basics, Task, Cleaning
    <3>. QED  BY <2>1, <2>7, <3>1, <3>2, EvIs DEF Basics, Shape
  <2>9. y.id # Ev(e).id  BY <2>3, <2>8 DEF Basics, Shape, Regular
  <2>10. w # FirstTag(Ev(e), "wot_file")  BY <2>8 DEF Refers
  <2>11. FirstTag(y, "wot_file") = w  BY <2>1 DEF Refers
  <2>12. Pending(e, w)'  BY <2>5, <2>6, <2>7, <2>9, <2>10, <2>11 DEF Pending
  <2>. QED  BY <2>12
<1>5. CASE ~\E y \in evt : Refers(y, w)
  <2>1. Owners(w) = {} \/ \E c \in Conns : Pending(c, w)  BY <1>3, <1>5 DEF Cleared, Leftover
  <2>2. CASE Owners(w) = {}
    <3>1. Owners(w)' = Owners(w) \/ Owners(w)' = {}  BY OwnersStep
    <3>. QED  BY <2>2, <3>1
  <2>3. CASE \E c \in Conns : Pending(c, w)
    <3>1. PICK c \in Conns : Pending(c, w)  BY <2>3
    <3>2. c = e
      <4>. SUFFICES ASSUME c # e PROVE FALSE  OBVIOUS
      <4>1. h[c].pc = "idle"  BY OneSends DEF Calmly, Undisturbed
      <4>. QED  BY <3>1, <4>1 DEF Pending, Cleaning
    <3>. QED  BY <1>5, <3>1, <3>2, PendingStep
  <2>. QED  BY <2>1, <2>2, <2>3
<1>. QED  BY <1>4, <1>5

GraphsInv == Basics /\ AllBound /\ Cleared

LEMMA GraphsInit ==
    ASSUME \A s \in Scenes : Regular(s) /\ Orderly(s) /\ Settled(s), Init
    PROVE  GraphsInv
<1>1. Basics  BY InitBasics
<1>2. /\ scene \in Scenes /\ evt = scene.evt /\ own = scene.own /\ oks = {} /\ \A c \in Conns : h[c].pc = "idle"
  BY InitIs
<1>3. AllBound
  <2> SUFFICES ASSUME NEW w \in Graphs PROVE Carried(w)  BY DEF AllBound
  <2>1. ASSUME NEW e \in evt, Refers(e, w) PROVE Owners(w) # {}
    <3>1. w \in {x[1] : x \in own}  BY <1>2, <2>1, GraphIs DEF Settled, Refers
    <3>2. PICK x \in own : x[1] = w  BY <3>1
    <3>. QED  BY <3>2 DEF Owners
  <2>. QED  BY <1>2, <2>1 DEF Carried
<1>4. Cleared
  <2>1. \A c \in Conns : h[c].pc \notin Cleaning  BY <1>2 DEF Cleaning
  <2>2. \A e : Seen(e) => e \in evt  BY <1>2, <2>1 DEF Seen
  <2>. QED  BY <2>1, <2>2 DEF Cleared, Leftover
<1>. QED  BY <1>1, <1>3, <1>4 DEF GraphsInv

LEMMA GraphsSame ==
    ASSUME Basics, AllBound, Cleared, scene' = scene, evt' = evt, h' = h, oks' = oks, faults' = faults, restarts' = restarts,
           moves' \subseteq moves, moves \subseteq scene.moves, own \subseteq own',
           \A x \in own' : x \in own \/ \E m \in moves : m \notin moves' /\ x = <<m[2], m[3]>>
    PROVE  AllBound' /\ Cleared'
<1>1. ASSUME NEW w PROVE Owners(w) \subseteq Owners(w)'  BY DEF Owners
<1>2. ASSUME NEW w, ~Moved(w)' PROVE Owners(w)' = Owners(w) /\ ~Moved(w)
  <2>1. ASSUME NEW m \in moves, m \notin moves' PROVE m[2] # w  BY <1>2, <2>1 DEF Moved
  <2>2. \A y : y[1] = w => (y \in own' <=> y \in own)  BY <2>1
  <2>. QED  BY <1>2, <2>2, OwnersAre DEF Moved
<1>3. \A c \in Conns : Ev(c)' = Ev(c) /\ OldGraph(c)' = OldGraph(c)  BY DEF Ev, OldGraph
<1>4. AllBound'
  <2> SUFFICES ASSUME Alone, NEW w \in Graphs PROVE Carried(w)'  BY DEF AllBound, Alone
  <2>1. Carried(w)  BY DEF AllBound
  <2>2. Owners(w) # {} => Owners(w)' # {}  BY <1>1
  <2>. QED  BY <1>3, <2>1, <2>2 DEF Carried, Refers
<1>5. Cleared'
  <2>1. Calmly' = Calmly  BY DEF Calmly, Undisturbed, Alone, Sent
  <2> SUFFICES ASSUME Calmly
               PROVE  (\A c \in Conns : h[c].pc \in Cleaning => Ev(c) \in evt) /\ \A w \in Graphs : Leftover(w)'
    BY <1>3, <2>1 DEF Cleared
  <2>2. ASSUME NEW w \in Graphs PROVE Leftover(w)'
    <3>1. \A e : Seen(e)' = Seen(e)  BY DEF Seen, Sent, Ev
    <3>2. \A c \in Conns : Pending(c, w)' = Pending(c, w)  BY DEF Pending, Ev
    <3>3. All(scene)' = All(scene)  BY DEF All, SentBy
    <3>4. Leftover(w)  BY DEF Cleared
    <3>. QED  BY <1>2, <3>1, <3>2, <3>3, <3>4 DEF Leftover, Refers
  <2>. QED  BY <2>2 DEF Cleared
<1>. QED  BY <1>4, <1>5

LEMMA GraphsNext ==
    ASSUME GraphsInv, [Next]_vars
    PROVE  GraphsInv'
<1>1. Basics /\ Basics' /\ AllBound /\ Cleared  BY NextBasics DEF GraphsInv
<1>2. CASE \E c \in Conns : Step(c)
  <2>1. PICK e \in Conns : Step(e)  BY <1>2
  <2>2. Turn(e) /\ Owned(e) /\ Through(e) /\ scene.script[e] # <<>>  BY <1>1, <2>1, StepTurn, StepOwns, StepSends
  <2>3. scene' = scene /\ restarts' = restarts /\ (faults' = 0 => faults = 0)  BY <2>2 DEF Turn, Frame
  <2>4. AllBound'
    <3> SUFFICES ASSUME Alone, NEW w \in Graphs PROVE Carried(w)'  BY <2>3 DEF AllBound, Alone
    <3>1. Carried(w)  BY <1>1 DEF AllBound
    <3>. QED  BY <1>1, <2>2, <3>1, BoundStep
  <2>5. Cleared'
    <3>1. Calmly' => Calmly  BY <2>3 DEF Calmly, Undisturbed, Alone, Sent
    <3> SUFFICES ASSUME Calmly
                 PROVE  (\A c \in Conns : h'[c].pc \in Cleaning => Ev(c)' \in evt') /\ \A w \in Graphs : Leftover(w)'
      BY <3>1 DEF Cleared
    <3>2. \A c \in Conns : h'[c].pc \in Cleaning => Ev(c)' \in evt'  BY <1>1, <2>2, StoredStep
    <3>3. \A w \in Graphs : Leftover(w)'  BY <1>1, <2>2, LeftoverStep
    <3>. QED  BY <3>2, <3>3
  <2>. QED  BY <1>1, <2>4, <2>5 DEF GraphsInv
<1>3. CASE Upload \/ Claim
  <2>1. /\ scene' = scene /\ evt' = evt /\ h' = h /\ oks' = oks /\ faults' = faults /\ restarts' = restarts
        /\ moves' \subseteq moves /\ own \subseteq own'
    BY <1>3, MoveIs
  <2>2. \A x \in own' : x \in own \/ \E m \in moves : m \notin moves' /\ x = <<m[2], m[3]>>  BY <1>3, MoveIs
  <2>3. moves \subseteq scene.moves  BY <1>1 DEF Basics, Shape
  <2>4. AllBound' /\ Cleared'  BY <1>1, <2>1, <2>2, <2>3, GraphsSame
  <2>. QED  BY <1>1, <2>4 DEF GraphsInv
<1>4. CASE Restart
  <2>1. scene' = scene /\ evt' = evt /\ own' = own /\ restarts' # 0  BY <1>1, <1>4, RestartKeeps DEF Basics
  <2>2. \A c \in Conns : Stopped(c)  BY <1>1, <1>4, RestartIs DEF Basics
  <2>3. \A c \in Conns : h'[c].pc # "put" /\ h'[c].pc # "drop"  BY <2>2 DEF Stopped
  <2>4. AllBound'  BY <1>1, <2>1, <2>3 DEF AllBound, Alone, Carried, Refers, Owners
  <2>5. Cleared'  BY <2>1 DEF Cleared, Calmly, Undisturbed
  <2>. QED  BY <1>1, <2>4, <2>5 DEF GraphsInv
<1>5. CASE UNCHANGED vars
  <2>1. /\ scene' = scene /\ evt' = evt /\ h' = h /\ oks' = oks /\ faults' = faults /\ restarts' = restarts
        /\ moves' = moves /\ own' = own
    BY <1>5 DEF vars
  <2>2. moves \subseteq scene.moves  BY <1>1 DEF Basics, Shape
  <2>3. AllBound' /\ Cleared'  BY <1>1, <2>1, <2>2, GraphsSame
  <2>. QED  BY <1>1, <2>3 DEF GraphsInv
<1>. QED  BY <1>2, <1>3, <1>4, <1>5 DEF Next

\* Over one connection, a social graph that a permission event refers to has
\* an owner, and one that was replaced everywhere is given up.
THEOREM GraphsAreKept ==
    ASSUME \A s \in Scenes : Regular(s) /\ Orderly(s) /\ Settled(s)
    PROVE  Spec => []GraphsKept
<1>1. Init => GraphsInv  BY GraphsInit
<1>2. GraphsInv /\ [Next]_vars => GraphsInv'  BY GraphsNext
<1>3. GraphsInv => GraphsKept
  <2> SUFFICES ASSUME GraphsInv, Alone, NEW w \in {x \in DOMAIN Files : Files[x].wot}
               PROVE  /\ (\E e \in evt : Refers(e, w)) => Owners(w) # {}
                      /\ (/\ Quiet /\ faults = 0 /\ restarts = 0 /\ ~\E e \in Sent : e.kind = 72
                          /\ \E e \in scene.evt \cup {x \in Sent : x.id \in oks} : Refers(e, w)
                          /\ ~\E e \in evt : Refers(e, w)
                          /\ ~\E m \in scene.moves \ moves : m[2] = w) => Owners(w) = {}
    BY DEF GraphsKept
  <2>1. w \in Graphs  BY DEF Graphs
  <2>2. ASSUME \E e \in evt : Refers(e, w) PROVE Owners(w) # {}  BY <2>1, <2>2 DEF GraphsInv, AllBound, Carried
  <2>3. ASSUME Quiet, faults = 0, restarts = 0, ~\E e \in Sent : e.kind = 72,
               \E e \in scene.evt \cup {x \in Sent : x.id \in oks} : Refers(e, w),
               ~\E e \in evt : Refers(e, w), ~\E m \in scene.moves \ moves : m[2] = w
        PROVE  Owners(w) = {}
    <3>1. Leftover(w)  BY <2>1, <2>3 DEF GraphsInv, Cleared, Calmly, Undisturbed
    <3>2. PICK e \in scene.evt \cup {x \in Sent : x.id \in oks} : Refers(e, w)  BY <2>3
    <3>3. e \in All(scene) /\ Seen(e)  BY <3>2 DEF All, Sent, Seen
    <3>4. \A c \in Conns : ~Pending(c, w)  BY <2>3 DEF Pending, Quiet, Cleaning
    <3>5. ~Moved(w)  BY <2>3 DEF Moved
    <3>. QED  BY <2>3, <3>1, <3>2, <3>3, <3>4, <3>5 DEF Leftover
  <2>. QED  BY <2>2, <2>3
<1>. QED  BY <1>1, <1>2, <1>3, PTL DEF Spec

-----------------------------------------------------------------------------
(* The rules of access fit together *)

\* Whoever has a role, or is allowed by a level of a private repository, reads it.
LEMMA RoleReads ==
    ASSUME Shape, NEW p \in evt, NEW who, NEW roles, HasRole(p, who, roles)
    PROVE  Reader(p, who)
<1>1. CASE p.pubkey = who  BY <1>1 DEF Reader
<1>2. CASE \E t \in Range(p.tags) : Gives(t, who, roles) # {}
  <2>1. PICK t \in Range(p.tags) : Gives(t, who, roles) # {}  BY <1>2
  <2>2. PICK i \in 3..Len(t) : t[1] = "p" /\ t[2] = who  BY <2>1 DEF Gives
  <2>3. Len(t) \in Nat  BY DEF Shape, Regular
  <2>4. Len(t) >= 2  BY <2>2, <2>3
  <2>. QED  BY <2>2, <2>4 DEF Reader, Values
<1>. QED  BY <1>1, <1>2 DEF HasRole

LEMMA LevelReads ==
    ASSUME Shape, NEW p \in evt, NEW who, NEW level, NEW known, LevelAllows(p, who, level, known)
    PROVE  ~Private(p) \/ Reader(p, who)
<1>1. ~Private(p) \/ RoleOf(p, who) \in {"owner", "maintainer", "triage"}
  <2>1. CASE level = "everyone"  BY <2>1 DEF LevelAllows
  <2>2. CASE level = "wot"  BY <2>2 DEF LevelAllows
  <2>3. CASE level = "maintainers_triage"  BY <2>3 DEF LevelAllows
  <2>4. CASE level = "maintainers"  BY <2>4 DEF LevelAllows
  <2>5. CASE level \notin {"everyone", "wot", "maintainers_triage", "maintainers"}  BY <2>5 DEF LevelAllows
  <2>. QED  BY <2>1, <2>2, <2>3, <2>4, <2>5
<1>2. ASSUME RoleOf(p, who) \in {"owner", "maintainer", "triage"}, p.pubkey # who PROVE Reader(p, who)
  <2> DEFINE counts == {"maintainer", "triage", "write", "read"}
             at == {i \in DOMAIN p.tags : Gives(p.tags[i], who, counts) # {}}
  <2>1. at # {}
    <3>. SUFFICES ASSUME at = {} PROVE FALSE  OBVIOUS
    <3>1. RoleOf(p, who) = None  BY <1>2 DEF RoleOf
    <3>. QED  BY <1>2, <3>1, RulesAssumption
  <2>2. PICK i \in DOMAIN p.tags : Gives(p.tags[i], who, counts) # {}  BY <2>1
  <2>3. p.tags[i] \in Range(p.tags)  BY DEF Range
  <2>4. HasRole(p, who, counts)  BY <2>2, <2>3 DEF HasRole
  <2>. QED  BY <2>4, RoleReads
<1>3. p.pubkey = who => Reader(p, who)  BY DEF Reader
<1>. QED  BY <1>1, <1>2, <1>3

\* The store has one answer to a query for one event with a kind and a tag.
LEMMA FirstAnswer ==
    ASSUME Shape, NEW k, NEW n, NEW v
    PROVE  \E q : /\ QueryEvents(evt, UpTo(k, n, v, 1)) = {q}
                  /\ q = <<>> => \A e \in evt : ~(e.kind = k /\ v \in Values(e, n))
                  /\ q # <<>> => q[1] \in evt /\ q[1].kind = k /\ v \in Values(q[1], n)
<1> DEFINE f == UpTo(k, n, v, 1)
           q == Cut(Scan(evt, Prefix(k, n, v), f), Limit(f))
<1>1. Timed(evt)  BY TimedEvents
<1>2. /\ Proper(f) /\ f.ids = <<>> /\ \A x : Matches(x, f) <=> x.kind = k /\ v \in Values(x, n)
  BY TaggedIs
<1>3. QueryEvents(evt, f) = {q}  BY OneScan
<1> HIDE DEF f, q
<1>4. /\ q \in Seq(evt) /\ Len(q) \in Nat /\ DOMAIN q = 1..Len(q) /\ \A i \in DOMAIN q : q[i] \in Matching(evt, f)
      /\ q = <<>> => Matching(evt, f) = {}
  BY <1>1, <1>2, <1>3, AnswerIs
<1>5. q = <<>> => \A e \in evt : ~(e.kind = k /\ v \in Values(e, n))  BY <1>2, <1>4 DEF Matching
<1>6. ASSUME q # <<>> PROVE q[1] \in evt /\ q[1].kind = k /\ v \in Values(q[1], n)
  <2>1. Len(q) # 0  BY <1>4, <1>6, EmptySeq
  <2>2. q[1] \in Matching(evt, f)  BY <1>4, <2>1
  <2>. QED  BY <1>2, <2>2 DEF Matching
<1>. QED  BY <1>3, <1>5, <1>6 DEF f

\* The permission event of a repository.
LEMMA AuthorityIs ==
    ASSUME Shape, NEW r, NEW s \in Permissions(evt, r), s # <<>>
    PROVE  /\ Permissions(evt, r) = {s} /\ QueryEvents(evt, UpTo(31415, "r", r, 1)) = {<<Latest(s)>>}
           /\ Latest(s) \in Range(s) /\ Latest(s) \in evt /\ Latest(s).kind = 31415 /\ r \in Values(Latest(s), "r")
<1>1. Timed(evt)  BY TimedEvents
<1>2. PICK q : QueryEvents(evt, UpTo(31415, "r", r, 1)) = {q}
  <2>1. QueryEvents(evt, UpTo(31415, "r", r, 1)) = {Cut(PermissionScan(evt, r), 1)}  BY <1>1, PermissionsAre
  <2>. QED  BY <2>1
<1>3. q = <<Latest(s)>> /\ Latest(s) = s[1] /\ Latest(s) \in Range(s)  BY <1>1, <1>2, OneAnswer
<1>4. Permissions(evt, r) = {s}
  <2>1. Permissions(evt, r) = {Cut(PermissionScan(evt, r), DefaultLimit)}  BY <1>1, PermissionsAre
  <2>. QED  BY <2>1
<1>5. Latest(s) \in evt /\ Latest(s).kind = 31415 /\ r \in Values(Latest(s), "r")
  <2>1. q # <<>> /\ q[1] = Latest(s)  BY <1>3
  <2> DEFINE k == 31415  n == "r"
  <2> HIDE DEF k, n
  <2>2. PICK x : /\ QueryEvents(evt, UpTo(k, n, r, 1)) = {x}
                 /\ x # <<>> => x[1] \in evt /\ x[1].kind = k /\ r \in Values(x[1], n)
    BY FirstAnswer
  <2>3. x = q  BY <1>2, <2>2 DEF k, n
  <2>. QED  BY <2>1, <2>2, <2>3 DEF k, n
<1>. QED  BY <1>2, <1>3, <1>4, <1>5

LEMMA EventsRead ==
    ASSUME Shape, NEW e \in Sent, CanWriteEvent(evt, e, blocked, Known),
           NEW x \in evt, FirstTag(x, "r") = FirstTag(e, "r"), x.kind \in OverrideKinds \ {31415}
    PROVE  CanReadEvent(evt, x, e.pubkey) \/ e.pubkey \in Invited
<1> SUFFICES ASSUME e.pubkey \notin Invited PROVE CanReadEvent(evt, x, e.pubkey)  OBVIOUS
<1> DEFINE r == FirstTag(e, "r")
<1>1. PICK p \in Authority(evt, e, blocked) : ByRole(p, e) \/ LevelAllows(p, e.pubkey, Level(p, e), Known)
  BY DEF CanWriteEvent, MayWriteEvent
<1>2. r # None /\ \E q \in QueryEvents(evt, UpTo(31415, "r", r, 1)) : q # <<>> /\ p = q[1]
  <2>1. r # None /\ p \in {q[1] : q \in QueryEvents(evt, UpTo(31415, "r", r, 1)) \ {<<>>}}
    BY <1>1 DEF Authority, UpTo
  <2>. QED  BY <2>1
<1> HIDE DEF r
<1>3. PICK s \in Permissions(evt, r) : TRUE
  <2>1. Permissions(evt, r) = {Cut(PermissionScan(evt, r), DefaultLimit)}  BY TimedEvents, PermissionsAre
  <2>. QED  BY <2>1
<1>4. s # <<>>
  <2>1. PICK q \in QueryEvents(evt, UpTo(31415, "r", r, 1)) : q # <<>> /\ p = q[1]  BY <1>2
  <2>2. p \in evt /\ p.kind = 31415 /\ r \in Values(p, "r")
    <3> DEFINE k == 31415  n == "r"
    <3> HIDE DEF k, n
    <3>1. PICK y : /\ QueryEvents(evt, UpTo(k, n, r, 1)) = {y}
                   /\ y # <<>> => y[1] \in evt /\ y[1].kind = k /\ r \in Values(y[1], n)
      BY FirstAnswer
    <3>2. y = q  BY <2>1, <3>1 DEF k, n
    <3>. QED  BY <2>1, <3>1, <3>2 DEF k, n
  <2>3. Perm(p, r) /\ p \in All(scene)  BY <1>2, <2>2, PermsAre DEF Shape
  <2>4. Matching(evt, UpTo(31415, "r", r, 0)) # {}
    <3>1. \A z : Matches(z, UpTo(31415, "r", r, 0)) <=> z.kind = 31415 /\ r \in Values(z, "r")  BY TaggedIs
    <3>. QED  BY <2>2, <3>1 DEF Matching
  <2>5. s = <<>> => Matching(evt, UpTo(31415, "r", r, 0)) = {}
    <3> DEFINE f == UpTo(31415, "r", r, 0)
    <3>1. Proper(f) /\ f.ids = <<>>  BY TaggedIs
    <3>2. s \in QueryEvents(evt, f)  BY <1>3, PlainTagged DEF Permissions
    <3> HIDE DEF f
    <3>3. s = <<>> => Matching(evt, f) = {}  BY <3>1, <3>2, TimedEvents, AnswerIs
    <3>. QED  BY <3>3 DEF f
  <2>. QED  BY <2>4, <2>5
<1>5. /\ QueryEvents(evt, UpTo(31415, "r", r, 1)) = {<<Latest(s)>>} /\ Latest(s) \in evt  BY <1>4, AuthorityIs
<1>6. p = Latest(s)  BY <1>2, <1>5
<1>7. ~Private(p) \/ Reader(p, e.pubkey)
  <2>1. CASE ByRole(p, e)  BY <1>5, <1>6, <2>1, RoleReads DEF ByRole
  <2>2. CASE LevelAllows(p, e.pubkey, Level(p, e), Known)  BY <1>5, <1>6, <2>2, LevelReads
  <2>. QED  BY <1>1, <2>1, <2>2
<1>8. FirstTag(x, "r") = r /\ x.kind # 31415  BY DEF r
<1>. QED  BY <1>2, <1>4, <1>6, <1>7, <1>8 DEF CanReadEvent

LEMMA DagsRead ==
    ASSUME Shape, NEW w \in DOMAIN Files, Files[w].r # None, ~Files[w].wot, NEW k \in Keys,
           CanWriteDag(evt, w, k, blocked, Known)
    PROVE  CanReadDag(evt, w, k, blocked)
<1> SUFFICES ASSUME k \notin Invited PROVE CanReadDag(evt, w, k, blocked)  BY DEF CanReadDag
<1> DEFINE r == Files[w].r
<1>1. /\ <<r, k>> \notin blocked
      /\ \E s \in Permissions(evt, r) : s # <<>> /\ MayWriteDag(Latest(s), w, k, Known)
  BY DEF CanWriteDag
<1>2. PICK s \in Permissions(evt, r) : s # <<>> /\ MayWriteDag(Latest(s), w, k, Known)  BY <1>1
<1> DEFINE p == Latest(s)
<1>3. p \in evt /\ p.kind = 31415 /\ r \in Values(p, "r")  BY <1>2, AuthorityIs
<1>4. FirstTag(p, "r") = r
  <2>1. p \in All(scene)  BY <1>3 DEF Shape
  <2>. QED  BY <1>3, <2>1 DEF Shape, Orderly
<1>5. ~Private(p) \/ Reader(p, k)
  <2>1. CASE Files[w].pr  BY <1>2, <1>3, <2>1, LevelReads DEF MayWriteDag
  <2>2. CASE ~Files[w].pr  BY <1>2, <1>3, <2>2, RoleReads DEF MayWriteDag
  <2>. QED  BY <2>1, <2>2
<1>6. p \in RepoOfDag(evt, w)
  <2> DEFINE pointed == {Latest(x) : x \in {y \in Permissions(evt, Files[w].r) : Files[w].r # None /\ y # <<>>}}
  <2>1. p \in pointed  BY <1>2
  <2>2. \E y \in pointed : Files[w].wot => FirstTag(y, "wot_file") = w  BY <2>1
  <2>3. RepoOfDag(evt, w) = pointed  BY <2>2 DEF RepoOfDag
  <2>. QED  BY <2>1, <2>3
<1>7. k # None  BY KeysAssumption
<1> HIDE DEF p, r
<1>. QED  BY <1>1, <1>4, <1>5, <1>6, <1>7 DEF CanReadDag

\* What the n-th kind of reference to a DAG finds.
NamedBy(w, n) ==
    {Latest(s) : s \in (UNION {Permissions(evt, FirstTag(q[1], "r")) :
        q \in QueryEvents(evt, UpTo(References[n][1], References[n][2], w, 1)) \ {<<>>}}) \ {<<>>}}

ReferTo(w) == {e \in evt : \E n \in DOMAIN References : e.kind = References[n][1] /\ w \in Values(e, References[n][2])}

LEMMA ReferringIs ==
    ASSUME NEW w
    PROVE  /\ Referring(w) = UNION {Permissions(evt, FirstTag(e, "r")) : e \in ReferTo(w)}
           /\ DOMAIN References \in SUBSET Nat
<1> DEFINE kinds == {<<31415, "wot_file">>, <<73, "bundle">>, <<73, "archive">>, <<74, "dag_root">>}
<1>1. DOMAIN References = {1, 2, 3, 4}  BY DEF References
<1>2. kinds = {References[n] : n \in DOMAIN References}
  <2>1. {References[n] : n \in {1, 2, 3, 4}} = {References[1], References[2], References[3], References[4]}  OBVIOUS
  <2>2. {References[1], References[2], References[3], References[4]} = kinds  BY DEF References
  <2>. QED  BY <1>1, <2>1, <2>2
<1>3. Referring(w) = UNION {Permissions(evt, FirstTag(e, "r")) :
                               e \in {e \in evt : \E x \in kinds : e.kind = x[1] /\ w \in Values(e, x[2])}}
  BY DEF Referring
<1> HIDE DEF kinds
<1>4. {e \in evt : \E x \in kinds : e.kind = x[1] /\ w \in Values(e, x[2])} = ReferTo(w)  BY <1>2 DEF ReferTo
<1>5. Referring(w) = UNION {Permissions(evt, FirstTag(e, "r")) : e \in ReferTo(w)}  BY <1>3, <1>4
<1>. QED  BY <1>1, <1>5

\* A reference finds the permission event of a repository that refers to the DAG.
LEMMA NamedIs ==
    ASSUME Shape, NEW w, <<>> \notin Referring(w), NEW n \in DOMAIN References
    PROVE  /\ \A p \in NamedBy(w, n) : \E s \in Referring(w) : p = Latest(s) /\ p \in Range(s)
           /\ (\E e \in evt : e.kind = References[n][1] /\ w \in Values(e, References[n][2])) => NamedBy(w, n) # {}
<1> DEFINE k == References[n][1]  t == References[n][2]
<1>1. PICK q : /\ QueryEvents(evt, UpTo(k, t, w, 1)) = {q}
               /\ q = <<>> => \A e \in evt : ~(e.kind = k /\ w \in Values(e, t))
               /\ q # <<>> => q[1] \in evt /\ q[1].kind = k /\ w \in Values(q[1], t)
  BY FirstAnswer
<1>2. NamedBy(w, n) = {Latest(s) : s \in (UNION {Permissions(evt, FirstTag(x[1], "r")) : x \in {q} \ {<<>>}}) \ {<<>>}}
  BY <1>1 DEF NamedBy
<1>3. q # <<>> => q[1] \in ReferTo(w)  BY <1>1 DEF ReferTo
<1>4. ASSUME q # <<>> PROVE Permissions(evt, FirstTag(q[1], "r")) \subseteq Referring(w)
  <2>1. q[1] \in ReferTo(w)  BY <1>3, <1>4
  <2>2. Referring(w) = UNION {Permissions(evt, FirstTag(e, "r")) : e \in ReferTo(w)}  BY ReferringIs
  <2>. QED  BY <2>1, <2>2
<1>5. ASSUME NEW p \in NamedBy(w, n) PROVE \E s \in Referring(w) : p = Latest(s) /\ p \in Range(s)
  <2>1. PICK s \in Permissions(evt, FirstTag(q[1], "r")) : q # <<>> /\ s # <<>> /\ p = Latest(s)  BY <1>2, <1>5
  <2>2. Latest(s) \in Range(s)  BY <2>1, AuthorityIs
  <2>. QED  BY <1>4, <2>1, <2>2
<1>6. ASSUME NEW e \in evt, e.kind = k, w \in Values(e, t) PROVE NamedBy(w, n) # {}
  <2>1. q # <<>>  BY <1>1, <1>6
  <2>2. PICK s \in Permissions(evt, FirstTag(q[1], "r")) : TRUE
    <3>1. Permissions(evt, FirstTag(q[1], "r")) = {Cut(PermissionScan(evt, FirstTag(q[1], "r")), DefaultLimit)}
      BY TimedEvents, PermissionsAre
    <3>. QED  BY <3>1
  <2>3. s # <<>>  BY <1>4, <2>1, <2>2
  <2>4. Latest(s) \in NamedBy(w, n)  BY <1>2, <2>1, <2>2, <2>3
  <2>. QED  BY <2>4
<1>. QED  BY <1>5, <1>6

LEMMA OpenRepoIs ==
    ASSUME Shape, NEW w \in DOMAIN Files, Files[w].r = None, Referring(w) # {}, <<>> \notin Referring(w)
    PROVE  /\ RepoOfDag(evt, w) # {}
           /\ \A p \in RepoOfDag(evt, w) : \E s \in Referring(w) : p = Latest(s) /\ p \in Range(s)
<1> DEFINE pointed == {Latest(s) : s \in {x \in Permissions(evt, Files[w].r) : Files[w].r # None /\ x # <<>>}}
           some == {n \in DOMAIN References : NamedBy(w, n) # {}}
<1>1. pointed = {}  OBVIOUS
<1>2. RepoOfDag(evt, w) = IF some = {} THEN {} ELSE NamedBy(w, Min(some))
  <2>1. ~\E p \in pointed : Files[w].wot => FirstTag(p, "wot_file") = w  BY <1>1
  <2>. QED  BY <2>1 DEF RepoOfDag, NamedBy, UpTo
<1> HIDE DEF pointed
<1>3. some # {}
  <2>1. PICK e \in ReferTo(w) : TRUE  BY ReferringIs
  <2>2. PICK n \in DOMAIN References : e.kind = References[n][1] /\ w \in Values(e, References[n][2])
    BY <2>1 DEF ReferTo
  <2>3. e \in evt  BY <2>1 DEF ReferTo
  <2>4. NamedBy(w, n) # {}  BY <2>2, <2>3, NamedIs
  <2>. QED  BY <2>4
<1>4. Min(some) \in some
  <2>1. some \in SUBSET Nat  BY ReferringIs
  <2> HIDE DEF some
  <2>. QED  BY <1>3, <2>1, MinOf
<1>5. Min(some) \in DOMAIN References /\ NamedBy(w, Min(some)) # {}  BY <1>4
<1> HIDE DEF some
<1>. QED  BY <1>2, <1>3, <1>5, NamedIs

\* The blacklist in memory has keys only.
BlockedKeys == \A x \in blocked : x[2] # None

LEMMA OpenIs ==
    ASSUME Shape, BlockedKeys
    PROVE  OpenDags
<1> SUFFICES ASSUME NEW w \in {x \in DOMAIN Files : Files[x].r = None}, Referring(w) # {}, <<>> \notin Referring(w)
             PROVE  /\ (\A s \in Referring(w) : \A p \in Range(s) : ~Private(p)) => CanReadDag(evt, w, None, blocked)
                    /\ (\A s \in Referring(w) : \A p \in Range(s) : Private(p)) =>
                          \A k \in Keys : CanReadDag(evt, w, k, blocked) =>
                              k \in Invited \/ \E s \in Referring(w) : \E p \in Range(s) : Reader(p, k)
  BY DEF OpenDags
<1>1. /\ RepoOfDag(evt, w) # {}
      /\ \A p \in RepoOfDag(evt, w) : \E s \in Referring(w) : p = Latest(s) /\ p \in Range(s)
  BY OpenRepoIs
<1>2. ASSUME \A s \in Referring(w) : \A p \in Range(s) : ~Private(p) PROVE CanReadDag(evt, w, None, blocked)
  <2>1. PICK p \in RepoOfDag(evt, w) : ~Private(p)  BY <1>1, <1>2
  <2>2. <<FirstTag(p, "r"), None>> \notin blocked  BY DEF BlockedKeys
  <2>. QED  BY <2>1, <2>2 DEF CanReadDag
<1>3. ASSUME \A s \in Referring(w) : \A p \in Range(s) : Private(p), NEW k \in Keys, CanReadDag(evt, w, k, blocked)
      PROVE  k \in Invited \/ \E s \in Referring(w) : \E p \in Range(s) : Reader(p, k)
  <2>1. k \in Invited \/ \E p \in RepoOfDag(evt, w) : ~Private(p) \/ Reader(p, k)  BY <1>3 DEF CanReadDag
  <2>. QED  BY <1>1, <1>3, <2>1
<1>. QED  BY <1>2, <1>3

LEMMA WritersAre ==
    ASSUME Shape
    PROVE  WritersRead
<1>1. ASSUME NEW e \in Sent, CanWriteEvent(evt, e, blocked, Known), NEW x \in evt,
             FirstTag(x, "r") = FirstTag(e, "r"), x.kind \in OverrideKinds \ {31415}
      PROVE  CanReadEvent(evt, x, e.pubkey) \/ e.pubkey \in Invited
  BY <1>1, EventsRead
<1>2. ASSUME NEW w \in {x \in DOMAIN Files : Files[x].r # None /\ ~Files[x].wot}, NEW k \in Keys,
             CanWriteDag(evt, w, k, blocked, Known)
      PROVE  CanReadDag(evt, w, k, blocked)
  BY <1>2, DagsRead
<1>. QED  BY <1>1, <1>2 DEF WritersRead

LEMMA BlacklistIs ==
    \A x \in Blacklist(evt) : x[2] # None
BY RulesAssumption DEF Blacklist

LEMMA BlockedStays ==
    ASSUME BlockedKeys, [Next]_vars
    PROVE  BlockedKeys'
<1>1. CASE \E c \in Conns : Step(c)
  <2>1. PICK c \in Conns : Step(c)  BY <1>1
  <2>2. blocked' = blocked
    <3>1. Admit(c) => blocked' = blocked  BY DEF Admit
    <3>2. Query(c) => blocked' = blocked  BY DEF Query
    <3>3. Verify(c) \/ Bind(c) \/ Put(c) \/ Clean(c) => blocked' = blocked  BY DEF Verify, Bind, Put, Clean
    <3>4. Forget(c) \/ LookForRefs(c) \/ Drop(c) => blocked' = blocked  BY DEF Forget, LookForRefs, Drop
    <3>5. Resolve(c) => blocked' = blocked  BY DEF Resolve
    <3>6. Gather(c) => blocked' = blocked  BY DEF Gather
    <3>7. Erase(c) \/ Release(c) => blocked' = blocked  BY DEF Erase, Release
    <3>. QED  BY <2>1, <3>1, <3>2, <3>3, <3>4, <3>5, <3>6, <3>7 DEF Step
  <2>. QED  BY <2>2 DEF BlockedKeys
<1>2. CASE Upload \/ Claim
  <2>1. blocked' = blocked  BY <1>2 DEF Upload, Claim
  <2>. QED  BY <2>1 DEF BlockedKeys
<1>3. CASE Restart
  <2>1. blocked' = Blacklist(evt)  BY <1>3 DEF Restart
  <2>. QED  BY <2>1, BlacklistIs DEF BlockedKeys
<1>4. CASE UNCHANGED vars  BY <1>4 DEF vars, BlockedKeys
<1>. QED  BY <1>1, <1>2, <1>3, <1>4 DEF Next

\* The rules of access fit together in every state: whoever writes to a
\* repository reads it, and a DAG that names no repository is as open as the
\* repositories that refer to it.
THEOREM AccessFits ==
    ASSUME \A s \in Scenes : Regular(s) /\ Orderly(s)
    PROVE  Spec => []AccessRules
<1>1. Init => Basics /\ BlockedKeys
  <2>1. ASSUME Init PROVE blocked = Blacklist(evt)  BY <2>1 DEF Init
  <2>. QED  BY <2>1, InitBasics, BlacklistIs DEF BlockedKeys
<1>2. Basics /\ BlockedKeys /\ [Next]_vars => Basics' /\ BlockedKeys'  BY NextBasics, BlockedStays
<1>3. Basics /\ BlockedKeys => AccessRules  BY OpenIs, WritersAre DEF AccessRules, Basics
<1>. QED  BY <1>1, <1>2, <1>3, PTL DEF Spec

-----------------------------------------------------------------------------
(* Types *)

\* The passes a cascade has made: none before it starts, and fewer than it may when it gathers.
Paced(c) ==
    /\ h[c].pos \in 1..(Len(scene.script[c]) + 1)
    /\ h[c].pass <= MaxPasses
    /\ h[c].pc \in {"idle", "resolve"} => h[c].pass = 0
    /\ h[c].pc = "gather" => h[c].pass < MaxPasses

Typed ==
    /\ Basics /\ restarts <= MaxRestarts /\ faults <= MaxFaults
    /\ own \subseteq stored \X Keys /\ cached \cup stored \subseteq DOMAIN Files
    /\ blocked \subseteq (DOMAIN Repo) \X Keys /\ oks \subseteq {e.id : e \in Sent}
    /\ \A c \in Conns : Paced(c)

\* What a step does to the number of passes ...
Paces(c) ==
    \/ h'[c].pc = "idle" /\ h'[c].pass = 0
    \/ /\ h'[c].pc # "idle" /\ h'[c].pass = h[c].pass
       /\ h'[c].pc = "resolve" => h[c].pc = "idle"
       /\ h'[c].pc = "gather" => h[c].pc = "resolve" \/ Again(c)
    \/ h[c].pc = "gather" /\ h'[c].pc = "erase" /\ h'[c].pass = h[c].pass + 1

\* ... and to what is not a handler's own.
Keeps ==
    /\ blocked' = blocked /\ stored' = stored /\ cached' \subseteq cached \cup Known
    /\ faults' = faults \/ (faults < MaxFaults /\ faults' = faults + 1)

LEMMA EndPaces ==
    ASSUME Shape, NEW c \in Conns, End(c)
    PROVE  Paces(c)
<1>1. h'[c] = [AtRest EXCEPT !.pos = h[c].pos + 1]  BY DEF End, Shape
<1>2. h'[c].pc = "idle" /\ h'[c].pass = 0  BY <1>1 DEF AtRest
<1>. QED  BY <1>2 DEF Paces

LEMMA GoPaces ==
    ASSUME Shape, NEW c \in Conns, NEW pc \in Pcs \ {"idle", "gather"}, Goto(c, pc),
           pc = "resolve" => h[c].pc = "idle"
    PROVE  Paces(c)
<1>1. h'[c].pc = pc /\ h'[c].pass = h[c].pass  BY GotoFields DEF Same
<1>. QED  BY <1>1 DEF Paces

\* A step whose handler only changes its lists.
LEMMA SetPaces ==
    ASSUME Shape, NEW c \in Conns, h'[c].pc \in Pcs \ {"idle", "gather", "resolve"}, h'[c].pass = h[c].pass
    PROVE  Paces(c)
BY DEF Paces

LEMMA StepPaces ==
    ASSUME Shape, NEW c \in Conns, Step(c)
    PROVE  Paces(c) /\ Keeps
<1>0. h[c] \in Handler(scene)  BY HandlerIs
<1>1. CASE Admit(c)
  <2>1. h[c].pc = "idle" /\ Keeps  BY <1>1 DEF Admit, Keeps
  <2>2. End(c) \/ \E pc \in {"query", "resolve", "put"} : Goto(c, pc)  BY <1>1 DEF Admit, Refuse
  <2>. QED  BY <2>1, <2>2, EndPaces, GoPaces DEF Pcs
<1>2. CASE Query(c)
  <2>1. h[c].pc = "query" /\ Keeps  BY <1>2 DEF Query, Keeps
  <2>2. PICK old : Then(c, [h[c] EXCEPT !.pc = "verify", !.old = old])  BY <1>2 DEF Query
  <2>3. h'[c] = [h[c] EXCEPT !.pc = "verify", !.old = old]  BY <2>2, ThenFields
  <2>4. h'[c].pc = "verify" /\ h'[c].pass = h[c].pass  BY <1>0, <2>3 DEF Handler
  <2>. QED  BY <2>1, <2>4, SetPaces DEF Pcs
<1>3. CASE Verify(c) \/ Bind(c)
  <2>1. Keeps  BY <1>3 DEF Verify, Bind, Keeps
  <2>2. End(c) \/ \E pc \in {"put", "bind"} : Goto(c, pc)  BY <1>3 DEF Verify, Bind, Refuse
  <2>. QED  BY <2>1, <2>2, EndPaces, GoPaces DEF Pcs
<1>4. CASE Put(c)
  <2>1. Keeps  BY <1>4 DEF Put, Fault, Keeps
  <2>2. End(c) \/ Then(c, [h[c] EXCEPT !.pc = "clean", !.todo = h[c].old])  BY <1>4 DEF Put, Refuse, Ok
  <2>3. ASSUME Then(c, [h[c] EXCEPT !.pc = "clean", !.todo = h[c].old]) PROVE Paces(c)
    <3>1. h'[c] = [h[c] EXCEPT !.pc = "clean", !.todo = h[c].old]  BY <2>3, ThenFields
    <3>2. h'[c].pc = "clean" /\ h'[c].pass = h[c].pass  BY <1>0, <3>1 DEF Handler
    <3>. QED  BY <3>2, SetPaces DEF Pcs
  <2>. QED  BY <2>1, <2>2, <2>3, EndPaces
<1>5. CASE Clean(c)
  <2>1. h[c].pc = "clean" /\ Keeps  BY <1>5 DEF Clean, Fault, Keeps
  <2>2. Goto(c, "orphan") \/ Then(c, [h[c] EXCEPT !.todo = Tail(h[c].todo)])  BY <1>5 DEF Clean
  <2>3. ASSUME Then(c, [h[c] EXCEPT !.todo = Tail(h[c].todo)]) PROVE Paces(c)
    <3>1. h'[c] = [h[c] EXCEPT !.todo = Tail(h[c].todo)]  BY <2>3, ThenFields
    <3>2. h'[c].pc = "clean" /\ h'[c].pass = h[c].pass  BY <1>0, <2>1, <3>1 DEF Handler
    <3>. QED  BY <3>2, SetPaces DEF Pcs
  <2>. QED  BY <2>1, <2>2, <2>3, GoPaces DEF Pcs
<1>6. CASE Forget(c) \/ LookForRefs(c) \/ Drop(c)
  <2>1. Keeps  BY <1>6 DEF Forget, LookForRefs, Drop, Keeps
  <2>2. \/ End(c) \/ (\E pc \in {"refs", "drop"} : Goto(c, pc))
        \/ Then(c, [h[c] EXCEPT !.pc = "orphan", !.old = Tail(h[c].old)])
        \/ h[c].pc = "orphan" /\ Then(c, [h[c] EXCEPT !.old = Tail(h[c].old)])
    BY <1>6 DEF Forget, LookForRefs, Drop, Ok
  <2>3. ASSUME \/ Then(c, [h[c] EXCEPT !.pc = "orphan", !.old = Tail(h[c].old)])
               \/ h[c].pc = "orphan" /\ Then(c, [h[c] EXCEPT !.old = Tail(h[c].old)])
        PROVE  Paces(c)
    <3>1. \/ h'[c] = [h[c] EXCEPT !.pc = "orphan", !.old = Tail(h[c].old)]
          \/ h[c].pc = "orphan" /\ h'[c] = [h[c] EXCEPT !.old = Tail(h[c].old)]
      BY <2>3, ThenFields
    <3>2. h'[c].pc = "orphan" /\ h'[c].pass = h[c].pass  BY <1>0, <3>1 DEF Handler
    <3>. QED  BY <3>2, SetPaces DEF Pcs
  <2>. QED  BY <2>1, <2>2, <2>3, EndPaces, GoPaces DEF Pcs
<1>7. CASE Resolve(c)
  <2> DEFINE had == Found(evt, Resource(FirstTag(Ev(c), "r")))
  <2>1. h[c].pc = "resolve" /\ Keeps  BY <1>7 DEF Resolve, Keeps
  <2>2. End(c) \/ Then(c, [h[c] EXCEPT !.pc = "gather", !.had = had])  BY <1>7 DEF Resolve, Refuse
  <2> HIDE DEF had
  <2>3. ASSUME Then(c, [h[c] EXCEPT !.pc = "gather", !.had = had]) PROVE Paces(c)
    <3>1. h'[c] = [h[c] EXCEPT !.pc = "gather", !.had = had]  BY <2>3, ThenFields
    <3>2. h'[c].pc = "gather" /\ h'[c].pass = h[c].pass  BY <1>0, <3>1 DEF Handler
    <3>. QED  BY <2>1, <3>2 DEF Paces
  <2>. QED  BY <2>1, <2>2, <2>3, EndPaces
<1>8. CASE Gather(c)
  <2>1. h[c].pc = "gather" /\ Keeps  BY <1>8 DEF Gather, Fault, Keeps
  <2>2. \/ End(c) \/ Goto(c, "release")
        \/ \E s : Then(c, [h[c] EXCEPT !.pc = "erase", !.todo = s, !.pass = @ + 1, !.old = s,
                                       !.refs = @ \cup UNION {Refs(e) : e \in Range(s)}])
    BY <1>8 DEF Gather, Refuse
  <2>3. ASSUME NEW s, Then(c, [h[c] EXCEPT !.pc = "erase", !.todo = s, !.pass = @ + 1, !.old = s,
                                           !.refs = @ \cup UNION {Refs(e) : e \in Range(s)}])
        PROVE  Paces(c)
    <3> DEFINE refs == h[c].refs \cup UNION {Refs(e) : e \in Range(s)}
               pass == h[c].pass + 1
    <3>1. h'[c] = [h[c] EXCEPT !.pc = "erase", !.todo = s, !.pass = pass, !.old = s, !.refs = refs]
      BY <1>0, <2>3, ThenFields DEF Handler
    <3> HIDE DEF refs, pass
    <3>2. h'[c].pc = "erase" /\ h'[c].pass = pass  BY <1>0, <3>1 DEF Handler
    <3>. QED  BY <2>1, <3>2 DEF Paces, pass
  <2>. QED  BY <2>1, <2>2, <2>3, EndPaces, GoPaces DEF Pcs
<1>9. CASE Erase(c)
  <2> DEFINE rest == Tail(h[c].todo)
             pc == IF rest # <<>> THEN "erase" ELSE IF Again(c) THEN "gather" ELSE "release"
  <2>1. h[c].pc = "erase" /\ Keeps  BY <1>9 DEF Erase, Fault, Keeps
  <2>2. Then(c, [h[c] EXCEPT !.todo = rest, !.pc = pc])  BY <1>9 DEF Erase
  <2>3. pc \in {"erase", "gather", "release"} /\ (pc = "gather" => Again(c))  OBVIOUS
  <2> HIDE DEF pc, rest
  <2>4. h'[c] = [h[c] EXCEPT !.todo = rest, !.pc = pc]  BY <2>2, ThenFields
  <2>5. h'[c].pc = pc /\ h'[c].pass = h[c].pass  BY <1>0, <2>4 DEF Handler
  <2>. QED  BY <2>1, <2>3, <2>5 DEF Paces
<1>10. CASE Release(c)
  <2>1. h[c].pc = "release" /\ Keeps  BY <1>10 DEF Release, Fault, Keeps
  <2>2. Goto(c, "put") \/ \E ref : Then(c, [h[c] EXCEPT !.refs = @ \ {ref}])  BY <1>10 DEF Release
  <2>3. ASSUME NEW ref, Then(c, [h[c] EXCEPT !.refs = @ \ {ref}]) PROVE Paces(c)
    <3>1. h'[c] = [h[c] EXCEPT !.refs = @ \ {ref}]  BY <2>3, ThenFields
    <3>2. h'[c].pc = "release" /\ h'[c].pass = h[c].pass  BY <1>0, <2>1, <3>1 DEF Handler
    <3>. QED  BY <3>2, SetPaces DEF Pcs
  <2>. QED  BY <2>1, <2>2, <2>3, GoPaces DEF Pcs
<1>. QED  BY <1>1, <1>2, <1>3, <1>4, <1>5, <1>6, <1>7, <1>8, <1>9, <1>10 DEF Step

LEMMA PacedStep ==
    ASSUME Basics, NEW c \in Conns, Turn(c), Paced(c), Paces(c), h[c].pos \in DOMAIN scene.script[c]
    PROVE  Paced(c)'
<1>1. Shape /\ h[c].pass \in Nat /\ h[c].pos \in Nat /\ MaxPasses \in Nat \ {0}
  BY HandlerIs, BoundsAssumption DEF Basics
<1>2. DOMAIN scene.script[c] = 1..Len(scene.script[c]) /\ Len(scene.script[c]) \in Nat  BY <1>1, ScriptIs
<1>3. /\ scene' = scene
      /\ h'[c].pos = h[c].pos \/ h'[c].pos = h[c].pos + 1
  BY DEF Turn, Frame, Turns
<1>4. h'[c].pos \in 1..(Len(scene.script[c]) + 1)  BY <1>1, <1>2, <1>3
<1>5. Again(c) => h[c].pass < MaxPasses  BY DEF Again
<1>6. /\ h'[c].pass <= MaxPasses
      /\ h'[c].pc \in {"idle", "resolve"} => h'[c].pass = 0
      /\ h'[c].pc = "gather" => h'[c].pass < MaxPasses
  BY <1>1, <1>5 DEF Paced, Paces
<1>. QED  BY <1>3, <1>4, <1>6 DEF Paced

LEMMA StepTyped ==
    ASSUME Typed, NEW c \in Conns, Step(c)
    PROVE  Typed'
<1>1. Basics /\ Shape /\ Turn(c) /\ Basics'  BY StepTurn, StepBasics DEF Typed, Basics
<1>2. Paces(c) /\ Keeps  BY <1>1, StepPaces
<1>3. /\ scene' = scene /\ moves' = moves /\ restarts' = restarts /\ own' \subseteq own
      /\ \A d \in Conns : d # c => h'[d] = h[d]
  BY <1>1 DEF Turn, Frame, Frees
<1>4. h[c].pos \in DOMAIN scene.script[c]
  <2>1. CASE h[c].pc # "idle"  BY <1>1, <2>1 DEF Basics, Task
  <2>2. CASE h[c].pc = "idle"
    <3>1. Admit(c)
      BY <2>2 DEF Step, Query, Verify, Bind, Put, Clean, Forget, LookForRefs, Drop, Resolve, Gather, Erase, Release
    <3>2. h[c].pos <= Len(scene.script[c]) /\ h[c].pos \in Nat \ {0}  BY <1>1, <3>1, HandlerIs DEF Admit
    <3>. QED  BY <1>1, <3>2, ScriptIs
  <2>. QED  BY <2>1, <2>2
<1>5. faults' <= MaxFaults /\ restarts' <= MaxRestarts
  BY <1>1, <1>2, <1>3, BoundsAssumption DEF Typed, Keeps, Shape
<1>6. /\ own' \subseteq stored' \X Keys /\ cached' \cup stored' \subseteq DOMAIN Files
      /\ blocked' \subseteq (DOMAIN Repo) \X Keys
  <2>1. Known \subseteq DOMAIN Files
    <3>1. \A x \in own : x[1] \in stored  BY DEF Typed
    <3>. QED  BY <3>1 DEF Known, Typed
  <2>. QED  BY <1>2, <1>3, <2>1 DEF Keeps, Typed
<1>7. oks' \subseteq {e.id : e \in Sent}'
  <2>1. oks' = oks \/ oks' = oks \cup {Ev(c).id}  BY <1>1 DEF Turn, Acks
  <2>2. Ev(c) \in Sent  BY <1>1, <1>4, EvIs
  <2>3. Sent' = Sent  BY <1>3 DEF Sent, SentBy
  <2>. QED  BY <2>1, <2>2, <2>3 DEF Typed
<1>8. ASSUME NEW d \in Conns PROVE Paced(d)'
  <2>1. CASE d = c  BY <1>1, <1>2, <1>4, <2>1, PacedStep DEF Typed
  <2>2. CASE d # c  BY <1>3, <2>2 DEF Typed, Paced
  <2>. QED  BY <2>1, <2>2
<1>. QED  BY <1>1, <1>5, <1>6, <1>7, <1>8 DEF Typed

LEMMA BlacklistTyped ==
    Blacklist(evt) \subseteq (DOMAIN Repo) \X Keys
BY PathsAssumption DEF Blacklist

LEMMA MoveTyped ==
    ASSUME Typed, Rooted(scene), Upload \/ Claim
    PROVE  Typed'
<1>1. Basics /\ moves \subseteq scene.moves  BY DEF Typed, Basics, Shape
<1>2. Basics'  BY <1>1, NextBasics DEF Next
<1>3. /\ scene' = scene /\ h' = h /\ oks' = oks /\ faults' = faults /\ restarts' = restarts  BY MoveIs
<1>4. blocked' = blocked  BY DEF Upload, Claim
<1>5. own' \subseteq stored' \X Keys /\ cached' \cup stored' \subseteq DOMAIN Files
  <2>1. PICK m \in moves :
           \/ own' = own /\ stored' = stored /\ cached' = cached
           \/ /\ own' = own \cup {<<m[2], m[3]>>} /\ stored' = stored \cup {m[2]} /\ cached' \subseteq cached \cup {m[2]}
           \/ /\ m[2] \in stored /\ own' = own \cup {<<m[2], m[3]>>} /\ stored' = stored /\ cached' = cached
    <3>1. CASE Upload
      <4>1. PICK m \in moves :
               IF CanWriteDag(evt, m[2], m[3], blocked, Known)
               THEN /\ own' = own \cup {<<m[2], m[3]>>} /\ stored' = stored \cup {m[2]}
                    /\ cached' = IF Files[m[2]].wot THEN cached \cup {m[2]} ELSE cached
               ELSE UNCHANGED <<own, stored, cached>>
        BY <3>1 DEF Upload
      <4>. QED  BY <4>1
    <3>2. CASE Claim
      <4>1. PICK m \in moves : /\ own' = IF m[2] \in stored THEN own \cup {<<m[2], m[3]>>} ELSE own
                               /\ stored' = stored /\ cached' = cached
        BY <3>2 DEF Claim
      <4>. QED  BY <4>1
    <3>. QED  BY <3>1, <3>2
  <2>2. m[2] \in DOMAIN Files /\ m[3] \in Keys  BY <1>1 DEF Rooted
  <2>3. own \subseteq stored \X Keys /\ cached \cup stored \subseteq DOMAIN Files  BY DEF Typed
  <2>. QED  BY <2>1, <2>2, <2>3
<1>6. Sent' = Sent /\ \A c \in Conns : Paced(c)' <=> Paced(c)  BY <1>3 DEF Sent, SentBy, Paced
<1>. QED  BY <1>2, <1>3, <1>4, <1>5, <1>6 DEF Typed

LEMMA RestartTyped ==
    ASSUME Typed, Restart
    PROVE  Typed'
<1>1. Basics /\ Shape  BY DEF Typed, Basics
<1>2. Basics'  BY <1>1, NextBasics DEF Next
<1>3. scene' = scene /\ own' = own /\ oks' = oks /\ faults' = faults  BY <1>1, RestartKeeps
<1>4. stored' = stored /\ cached' = {} /\ blocked' = Blacklist(evt)  BY DEF Restart
<1>5. restarts' <= MaxRestarts
  <2>1. restarts < MaxRestarts /\ restarts' = restarts + 1  BY DEF Restart
  <2>. QED  BY <1>1, <2>1, BoundsAssumption DEF Shape
<1>6. ASSUME NEW c \in Conns PROVE Paced(c)'
  <2>1. h'[c] = IF h[c].pc = "idle" THEN h[c] ELSE [AtRest EXCEPT !.pos = h[c].pos + 1]  BY DEF Restart
  <2>2. CASE h[c].pc = "idle"  BY <1>3, <2>1, <2>2 DEF Typed, Paced
  <2>3. CASE h[c].pc # "idle"
    <3>1. h'[c].pc = "idle" /\ h'[c].pass = 0 /\ h'[c].pos = h[c].pos + 1  BY <2>1, <2>3 DEF AtRest
    <3>2. h[c].pos \in DOMAIN scene.script[c]  BY <1>1, <2>3 DEF Basics, Task
    <3>3. h'[c].pos \in 1..(Len(scene.script[c]) + 1)  BY <1>1, <3>1, <3>2, ScriptIs
    <3>. QED  BY <1>3, <3>1, <3>3, BoundsAssumption DEF Paced
  <2>. QED  BY <2>2, <2>3
<1>7. Sent' = Sent  BY <1>3 DEF Sent, SentBy
<1>. QED  BY <1>2, <1>3, <1>4, <1>5, <1>6, <1>7, BlacklistTyped DEF Typed

LEMMA InitTyped ==
    ASSUME \A s \in Scenes : Regular(s) /\ Orderly(s) /\ Rooted(s), Init
    PROVE  Typed
<1>1. Basics /\ scene \in Scenes  BY InitBasics, InitIs
<1>2. /\ own = scene.own /\ oks = {} /\ faults = 0 /\ restarts = 0
      /\ stored = {x[1] : x \in own} /\ cached = {} /\ blocked = Blacklist(evt) /\ h = [c \in Conns |-> AtRest]
  BY DEF Init
<1>3. own \subseteq (DOMAIN Files) \X Keys  BY <1>1, <1>2 DEF Rooted
<1>4. own \subseteq stored \X Keys /\ cached \cup stored \subseteq DOMAIN Files  BY <1>2, <1>3
<1>5. ASSUME NEW c \in Conns PROVE Paced(c)
  <2>1. h[c].pc = "idle" /\ h[c].pass = 0 /\ h[c].pos = 1  BY <1>2 DEF AtRest
  <2>. QED  BY <1>1, <2>1, ScriptIs, BoundsAssumption DEF Paced, Basics
<1>. QED  BY <1>1, <1>2, <1>4, <1>5, BoundsAssumption, BlacklistTyped DEF Typed

\* The state of the handlers, of the DAGs and of the caches is well formed, and
\* a cascade never makes more passes than it may.
THEOREM TypeCorrect ==
    ASSUME \A s \in Scenes : Regular(s) /\ Orderly(s) /\ Rooted(s)
    PROVE  Spec => []TypeOK
<1>1. Init => Typed  BY InitTyped
<1>2. Typed /\ [Next]_vars => Typed'
  <2>1. ASSUME Typed, UNCHANGED vars PROVE Typed'
    <3>1. Basics'  BY <2>1, NextBasics DEF Typed
    <3>. QED  BY <2>1, <3>1 DEF vars, Typed, Paced, Sent, SentBy
  <2>2. Typed => Rooted(scene)  BY DEF Typed, Basics, Shape
  <2>. QED  BY <2>1, <2>2, StepTyped, MoveTyped, RestartTyped DEF Next
<1>3. Typed => TypeOK
  <2> SUFFICES ASSUME Typed PROVE TypeOK  OBVIOUS
  <2>1. Shape /\ Rooted(scene)  BY DEF Typed, Basics, Shape
  <2>2. /\ scene \in Scenes /\ moves \subseteq scene.moves /\ evt \subseteq scene.evt \cup Sent
        /\ faults \in 0..MaxFaults /\ restarts \in 0..MaxRestarts
    BY <2>1, BoundsAssumption DEF Typed, Shape, All, Sent
  <2>3. ASSUME NEW c \in Conns
        PROVE  /\ h[c].pc \in Pcs /\ h[c].pass \in 0..MaxPasses
               /\ h[c].pos \in 1..(Len(scene.script[c]) + 1)
               /\ Range(h[c].todo) \cup Range(h[c].old) \cup h[c].had \subseteq scene.evt \cup Sent
               /\ h[c].refs \subseteq (DOMAIN Files) \X Keys
    <3>1. h[c] \in Handler(scene) /\ Paced(c)  BY <2>1, HandlerIs DEF Typed
    <3>2. \A s \in Seq(All(scene)) : Range(s) \subseteq All(scene)  BY ElementOfSeq DEF Range
    <3>3. h[c].refs \subseteq UNION {Refs(e) : e \in All(scene)}  BY <3>1 DEF Handler
    <3>4. h[c].refs \subseteq (DOMAIN Files) \X Keys  BY <2>1, <3>3 DEF Rooted
    <3>5. h[c].pass \in 0..MaxPasses  BY <3>1, BoundsAssumption DEF Handler, Paced
    <3>6. Range(h[c].todo) \cup Range(h[c].old) \cup h[c].had \subseteq All(scene)  BY <3>1, <3>2 DEF Handler
    <3>. QED  BY <3>1, <3>4, <3>5, <3>6 DEF Handler, Paced, All, Sent
  <2>. QED  BY <2>2, <2>3 DEF TypeOK, Typed
<1>. QED  BY <1>1, <1>2, <1>3, PTL DEF Spec
=============================================================================
