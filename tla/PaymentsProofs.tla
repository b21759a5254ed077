--------------------------- MODULE PaymentsProofs ---------------------------
(***************************************************************************)
(* Theorems about Payments that hold for any number of users, goroutines,  *)
(* transactions and tiers, and any interleaving of their steps.            *)
(***************************************************************************)
EXTENDS Payments, TLAPS

\* What a goroutine's record promises, given the storage published so far.
Writing(j) == j.pc \in {"drop", "delete", "sign", "store"}

Payable(amount) == AboveHighest(amount) \/ Affordable(amount) # {}

Sold(sold, u) == sold[u].sats > 0

JobInv(j, sold) ==
    /\ j \in Job
    /\ j.rem \in Nat /\ j.seen \in Nat /\ j.ev.credit \in Nat
    /\ j.pc # "idle" => j.user \in Users
    /\ j.pc # "idle" => j.stage = "usage" \/ j.tx \in Txs
    /\ j.stage = "usage" => Writing(j)
    /\ j.pc \in {"reset", "read"} => Payable(j.rem + j.seen)
    /\ j.stage = "credit" /\ (Writing(j) \/ j.pc \in {"paid", "charge"})
          => Price[j.ev.tier] <= j.seen
    /\ j.pc = "charge" => j.stage = "credit"
    /\ j.stage \in {"buy", "credit"} /\ Writing(j) => j.cart.sats > 0
    /\ j.pc \in {"paid", "cascade"} \/ (j.stage = "extra" /\ Writing(j)) => Sold(sold, j.user)

StoreTypes ==
    /\ credit \in [Users -> Nat]
    /\ events \in [Users -> Seq(Event)]
    /\ \A u \in Users : paid[u] = NoPaid \/ paid[u] \in [tier : Tiers, exp : Nat, bytes : Nat]
    /\ DOMAIN paid = Users
    /\ saved \in [Txs -> Nat]
    /\ notes \subseteq [tx : Txs, isNew : BOOLEAN]

OtherTypes ==
    /\ month \in Nat
    /\ received \in [Users -> Nat]
    /\ bought \in [Users -> Sale]
    /\ count \in Count

\* The events in the store never show a negative credit either.
ShownCredit == \A u \in Users : \A i \in DOMAIN events[u] : events[u][i].credit \in Nat

JobsOK == job \in [Workers -> Job] /\ \A w \in Workers : JobInv(job[w], bought)

IInv == StoreTypes /\ OtherTypes /\ ShownCredit /\ JobsOK /\ PaidIsPublished

-----------------------------------------------------------------------------
(* The tiers.                                                               *)

\* Best picks a dearest member of a set of tiers.
LEMMA BestIsDearest ==
    ASSUME NEW S \in SUBSET Tiers, S # {}
    PROVE  Best(S) \in S /\ \A s \in S : Price[s] <= Price[Best(S)]
BY DearestAssumption DEF Best

LEMMA TierTypes ==
    /\ \A t \in Tiers : Price[t] \in Nat /\ Bytes[t] \in Nat /\ FullBytes(t) \in Nat
    /\ FreeTier \in Tiers
    /\ MaxLimitBytes \in Nat
BY TierAssumption DEF FullBytes

LEMMA HighestType == HighestTier \in Tiers /\ Price[HighestTier] \in Nat /\ Price[HighestTier] > 0
<1> DEFINE S == {t \in Tiers : Price[t] > 0}
<1>1. S \in SUBSET Tiers /\ S # {}
  BY TierAssumption
<1>2. Best(S) \in S
  BY <1>1, BestIsDearest
<1> QED
  BY <1>2, TierTypes DEF HighestTier

\* What a payment buys is affordable, and has a price.
LEMMA BestAffordable ==
    ASSUME NEW a \in Nat, Affordable(a) # {}
    PROVE  /\ Best(Affordable(a)) \in Tiers
           /\ Price[Best(Affordable(a))] \in Nat
           /\ Price[Best(Affordable(a))] > 0
           /\ Price[Best(Affordable(a))] <= a
<1>1. Affordable(a) \in SUBSET Tiers
  BY DEF Affordable
<1>2. Best(Affordable(a)) \in Affordable(a)
  BY <1>1, BestIsDearest
<1> QED
  BY <1>2, TierTypes DEF Affordable

\* Periods of the highest tier: at least one, and a remainder below its price.
LEMMA Periods ==
    ASSUME NEW a \in Nat, AboveHighest(a)
    PROVE  /\ a \div Price[HighestTier] \in Nat
           /\ a \div Price[HighestTier] > 0
           /\ a % Price[HighestTier] \in Nat
BY HighestType, Z3 DEF AboveHighest

-----------------------------------------------------------------------------
(* Records.                                                                 *)

LEMMA SaleTypes ==
    ASSUME NEW s \in Sale, NEW t \in Tiers, NEW n \in Nat
    PROVE  /\ With(s, t, n) \in Sale
           /\ With(s, t, n).sats = s.sats + n * Price[t]
           /\ n * Price[t] \in Nat
<1>1. n * Price[t] \in Nat /\ n * FullBytes(t) \in Nat
  BY TierTypes, Z3
<1> QED
  BY <1>1 DEF Sale, With

LEMMA NothingType == Nothing \in Sale /\ Nothing.sats = 0
BY DEF Nothing, Sale

\* The first sale of a job.
LEMMA SoldTypes ==
    ASSUME NEW t \in Tiers, NEW n \in Nat
    PROVE  With(Nothing, t, n) \in Sale /\ With(Nothing, t, n).sats = n * Price[t]
<1>1. n * Price[t] \in Nat
  BY SaleTypes, NothingType
<1>2. With(Nothing, t, n) \in Sale
  BY SaleTypes, NothingType
<1>3. 0 + n * Price[t] = n * Price[t]
  BY <1>1
<1>4. With(Nothing, t, n).sats = 0 + n * Price[t]
  BY DEF With, Nothing
<1> QED
  BY <1>2, <1>3, <1>4

LEMMA SumTypes ==
    ASSUME NEW a \in Sale, NEW b \in Sale
    PROVE  /\ Sum(a, b) \in Sale
           /\ Sum(a, b).sats = a.sats + b.sats
BY DEF Sale, Sum

LEMMA IdleInv == ASSUME NEW sold PROVE JobInv(Idle, sold) /\ Idle.pc = "idle"
<1>1. Idle \in Job
  BY TierTypes, NothingType DEF Idle, Job, PCs, Stages, Event, Sats, Size, Flag, Pool, MaybeUser, MaybeTx, Found
<1> QED
  BY <1>1 DEF Idle, JobInv, Writing

\* What a record promises survives a sale.
LEMMA JobInvGrows ==
    ASSUME NEW j, NEW a \in [Users -> Sale], NEW b \in [Users -> Sale], JobInv(j, a),
           \A u \in Users : b[u].sats >= a[u].sats
    PROVE  JobInv(j, b)
<1>1. \A u \in Users : a[u].sats \in Nat /\ b[u].sats \in Nat
  BY DEF Sale
<1>2. j.pc \in {"paid", "cascade"} \/ (j.stage = "extra" /\ Writing(j)) => j.user \in Users
  BY DEF JobInv, Writing
<1>3. j.pc \in {"paid", "cascade"} \/ (j.stage = "extra" /\ Writing(j)) => Sold(b, j.user)
  BY <1>1, <1>2 DEF JobInv, Sold
<1> QED
  BY <1>3 DEF JobInv

\* A step of one goroutine leaves what the others promise.
LEMMA JobStep ==
    ASSUME IInv, NEW w \in Workers, NEW rec, Go(w, rec), JobInv(rec, bought'),
           bought' \in [Users -> Sale],
           \A u \in Users : bought'[u].sats >= bought[u].sats
    PROVE  JobsOK'
<1>1. rec \in Job
  BY DEF JobInv
<1>2. job' \in [Workers -> Job]
  BY <1>1 DEF Go, IInv, JobsOK
<1>3. ASSUME NEW v \in Workers PROVE JobInv(job'[v], bought')
  <2>1. CASE v = w
    BY <2>1 DEF Go, IInv, JobsOK
  <2>2. CASE v # w
    <3>1. job'[v] = job[v] /\ JobInv(job[v], bought)
      BY <2>2 DEF Go, IInv, JobsOK
    <3> QED
      BY <3>1, JobInvGrows DEF IInv, OtherTypes
  <2> QED
    BY <2>1, <2>2
<1> QED
  BY <1>2, <1>3 DEF JobsOK

\* The usual case: the step publishes nothing.
LEMMA QuietJobStep ==
    ASSUME IInv, NEW w \in Workers, NEW rec, Go(w, rec), JobInv(rec, bought), bought' = bought
    PROVE  JobsOK'
<1>1. \A u \in Users : bought'[u].sats >= bought[u].sats
  BY DEF IInv, OtherTypes, Sale
<1>2. JobInv(rec, bought') /\ bought' \in [Users -> Sale]
  BY DEF IInv, OtherTypes
<1> QED
  BY <1>1, <1>2, JobStep

-----------------------------------------------------------------------------
(* The records the actions make.                                            *)

LEMMA JobFacts ==
    ASSUME IInv, NEW w \in Workers, job[w].pc # "idle"
    PROVE  /\ job[w] \in Job /\ JobInv(job[w], bought)
           /\ User(w) \in Users
           /\ credit[User(w)] \in Nat
           /\ events[User(w)] \in Seq(Event)
           /\ bought[User(w)] \in Sale
BY DEF IInv, JobsOK, JobInv, StoreTypes, OtherTypes, User

\* An event in the store, rewritten, is an event.
LEMMA HeadEvent ==
    ASSUME IInv, NEW u \in Users, events[u] # <<>>
    PROVE  Head(events[u]) \in Event /\ Head(events[u]).credit \in Nat
<1>1. events[u] \in Seq(Event)
  BY DEF IInv, StoreTypes
<1>2. Len(events[u]) > 0 /\ Head(events[u]) = events[u][1] /\ 1 \in DOMAIN events[u]
  BY <1>1
<1> QED
  BY <1>1, <1>2 DEF IInv, ShownCredit

LEMMA ExtendedType ==
    ASSUME NEW exp \in Nat, NEW n \in Nat, month \in Nat PROVE Extended(exp, n) \in Nat
BY DEF Extended

LEMMA EventTypes ==
    ASSUME NEW e \in Event, e.credit \in Nat, NEW t \in Tiers, NEW n \in Nat, month \in Nat
    PROVE  /\ Upgraded(e, t) \in Event /\ Upgraded(e, t).credit \in Nat
           /\ Prolonged(e, t, n) \in Event /\ Prolonged(e, t, n).credit \in Nat
           /\ Expected(e) \in Event /\ Expected(e).credit \in Nat
<1>1. e.exp \in Nat /\ e.total \in Nat
  BY DEF Event
<1>2. Extended(e.exp, 1) \in Nat /\ Extended(e.exp, n) \in Nat
  BY <1>1, ExtendedType
<1>3. n * FullBytes(t) \in Nat
  BY TierTypes, Z3
<1>4. e.total + Bytes[t] \in Nat /\ e.total + n * FullBytes(t) \in Nat
  BY <1>1, <1>3, TierTypes
<1>5. ExpectedTier \in Tiers /\ FullBytes(ExpectedTier) \in Nat
  BY TierTypes DEF ExpectedTier
<1>6. Upgraded(e, t) \in Event /\ Upgraded(e, t).credit \in Nat
  BY <1>2, <1>4 DEF Upgraded, Event
<1>7. Prolonged(e, t, n) \in Event /\ Prolonged(e, t, n).credit \in Nat
  BY <1>2, <1>4 DEF Prolonged, Event
<1>8. Expected(e) \in Event /\ Expected(e).credit \in Nat
  <2> DEFINE exp == IF e.exp < month THEN month + 1 ELSE e.exp
             total == IF e.total < FullBytes(ExpectedTier) THEN FullBytes(ExpectedTier)
                      ELSE e.total
  <2>1. exp \in Nat /\ total \in Nat
    BY <1>1, <1>5
  <2>2. Expected(e) = [e EXCEPT !.tier = ExpectedTier, !.exp = exp, !.total = total]
    BY DEF Expected
  <2> HIDE DEF exp, total
  <2> QED
    BY <1>5, <2>1, <2>2 DEF Event
<1> QED
  BY <1>6, <1>7, <1>8

LEMMA FirstEventType == ASSUME month \in Nat PROVE FirstEvent \in Event /\ FirstEvent.credit \in Nat
BY TierTypes DEF FirstEvent, Event

\* What a payment makes of the event it read.
LEMMA BuyHighInv ==
    ASSUME NEW j \in Job, NEW sold, JobInv(j, sold), j.user \in Users, j.tx \in Txs,
           NEW e \in Event, e.credit \in Nat, NEW a \in Nat, AboveHighest(a), month \in Nat
    PROVE  JobInv(BuyHigh(j, e, a), sold)
<1> DEFINE n == a \div Price[HighestTier]
           r == a % Price[HighestTier]
           ev == Prolonged(e, HighestTier, n)
           base == e.total + n * FullBytes(HighestTier)
           cart == With(Nothing, HighestTier, n)
<1>1. n \in Nat /\ n > 0 /\ r \in Nat
  BY Periods
<1>2. ev \in Event /\ ev.credit \in Nat
  BY <1>1, EventTypes, HighestType
<1>3. e.total \in Nat /\ n * FullBytes(HighestTier) \in Nat
  <2>1. FullBytes(HighestTier) \in Nat
    BY TierTypes, HighestType
  <2> QED
    BY <1>1, <2>1, Z3 DEF Event
<1>4. base \in Nat
  BY <1>3
<1>5. cart \in Sale /\ cart.sats = n * Price[HighestTier]
  <2> HIDE DEF n
  <2> QED
    BY <1>1, SoldTypes, HighestType
<1>6. n * Price[HighestTier] > 0
  BY <1>1, HighestType, Z3
<1>7. LowerTiers \in SUBSET Tiers
  BY DEF LowerTiers
<1> DEFINE rec == [j EXCEPT !.pc = "drop", !.stage = "buy", !.high = TRUE,
                            !.tier = HighestTier, !.rem = r, !.pool = LowerTiers,
                            !.ev = ev, !.base = base, !.cart = cart]
<1>8. BuyHigh(j, e, a) = rec
  BY DEF BuyHigh
<1> HIDE DEF n, r, ev, base, cart
<1>9. rec \in Job
  <2>1. "drop" \in PCs /\ "buy" \in Stages /\ TRUE \in Flag
        /\ r \in Sats /\ LowerTiers \in Pool /\ base \in Size
    BY <1>1, <1>4, <1>7 DEF PCs, Stages, Flag, Sats, Pool, Size
  <2> QED
    BY <1>2, <1>5, <2>1, HighestType DEF Job
<1>10. /\ rec.pc = "drop" /\ rec.stage = "buy" /\ rec.user = j.user /\ rec.tx = j.tx
       /\ rec.rem = r /\ rec.seen = j.seen /\ rec.ev = ev /\ rec.cart = cart
  BY DEF Job
<1> QED
  BY <1>1, <1>2, <1>5, <1>6, <1>8, <1>9, <1>10 DEF JobInv, Writing

LEMMA BuyOneInv ==
    ASSUME NEW j \in Job, NEW sold, JobInv(j, sold), j.user \in Users, j.tx \in Txs,
           NEW e \in Event, e.credit \in Nat, NEW a \in Nat, Affordable(a) # {}, month \in Nat
    PROVE  JobInv(BuyOne(j, e, a), sold)
<1> DEFINE t == Best(Affordable(a))
           ev == Upgraded(e, t)
           cart == With(Nothing, t, 1)
<1>1. t \in Tiers /\ Price[t] \in Nat /\ Price[t] > 0 /\ Price[t] <= a
  BY BestAffordable
<1>2. ev \in Event /\ ev.credit \in Nat
  BY <1>1, EventTypes
<1>3. cart \in Sale /\ cart.sats = 1 * Price[t]
  BY <1>1, SoldTypes
<1>4. a - Price[t] \in Nat
  BY <1>1
<1> DEFINE rec == [j EXCEPT !.pc = "drop", !.stage = "buy", !.tier = t,
                            !.rem = a - Price[t], !.ev = ev, !.cart = cart]
<1>5. BuyOne(j, e, a) = rec
  BY DEF BuyOne
<1> HIDE DEF t, ev, cart
<1>6. rec \in Job
  <2>1. "drop" \in PCs /\ "buy" \in Stages /\ a - Price[t] \in Sats
    BY <1>4 DEF PCs, Stages, Sats
  <2> QED
    BY <1>1, <1>2, <1>3, <2>1 DEF Job
<1>7. /\ rec.pc = "drop" /\ rec.stage = "buy" /\ rec.user = j.user /\ rec.tx = j.tx
      /\ rec.rem = a - Price[t] /\ rec.seen = j.seen /\ rec.ev = ev /\ rec.cart = cart
  BY DEF Job
<1> QED
  BY <1>1, <1>2, <1>3, <1>4, <1>5, <1>6, <1>7 DEF JobInv, Writing

LEMMA TakeInv ==
    ASSUME NEW j \in Job, NEW sold, JobInv(j, sold), j.pc = "cascade", NEW t \in InReach(j)
    PROVE  JobInv(Take(j, t), sold)
<1> DEFINE rem == j.rem - Price[t]
           pool == j.pool \ {t}
           ev == [j.ev EXCEPT !.total = j.ev.total + FullBytes(t)]
           cart == With(j.cart, t, 1)
           rec == [j EXCEPT !.rem = rem, !.pool = pool, !.ev = ev, !.cart = cart]
<1>1. j.rem \in Nat /\ j.pool \subseteq Tiers /\ j.ev \in Event /\ j.cart \in Sale
  BY DEF JobInv, Job, Pool
<1>2. t \in Tiers /\ Price[t] \in Nat /\ Price[t] <= j.rem /\ FullBytes(t) \in Nat
  BY <1>1, TierTypes DEF InReach
<1>3. rem \in Nat /\ rem \in Sats /\ pool \in Pool
  BY <1>1, <1>2 DEF Sats, Pool
<1>4. ev \in Event /\ ev.credit = j.ev.credit
  BY <1>1, <1>2 DEF Event
<1>5. cart \in Sale
  BY <1>1, <1>2, SaleTypes
<1>6. Take(j, t) = rec
  BY DEF Take, Job
<1> HIDE DEF rem, pool, ev, cart
<1>7. rec \in Job
  BY <1>3, <1>4, <1>5 DEF Job
<1>8. /\ rec.pc = "cascade" /\ rec.stage = j.stage /\ rec.user = j.user /\ rec.tx = j.tx
      /\ rec.rem = rem /\ rec.seen = j.seen /\ rec.ev = ev
  BY DEF Job
<1> QED
  BY <1>3, <1>4, <1>6, <1>7, <1>8 DEF JobInv, Writing

LEMMA BuyOnCreditInv ==
    ASSUME NEW j \in Job, NEW sold, JobInv(j, sold), j.pc = "apply",
           NEW c \in Nat, Affordable(c) # {}
    PROVE  JobInv(BuyOnCredit(j, Best(Affordable(c)), c), sold)
<1> DEFINE t == Best(Affordable(c))
           cart == With(Nothing, t, 1)
           total == j.ev.total + FullBytes(t)
           ev == [j.ev EXCEPT !.tier = t, !.total = total]
           rec == [j EXCEPT !.pc = "drop", !.stage = "credit", !.seen = c, !.cart = cart,
                            !.ev = ev]
<1>1. t \in Tiers /\ Price[t] \in Nat /\ Price[t] > 0 /\ Price[t] <= c /\ FullBytes(t) \in Nat
  BY BestAffordable, TierTypes
<1>2. cart \in Sale /\ cart.sats = 1 * Price[t]
  <2> HIDE DEF t
  <2> QED
    BY <1>1, SoldTypes
<1>3. total \in Nat
  <2> HIDE DEF t
  <2> QED
    BY <1>1 DEF Job, Event
<1>4. BuyOnCredit(j, Best(Affordable(c)), c) = rec
  BY DEF BuyOnCredit, Job, Event
<1>5. j.user \in Users /\ j.tx \in Txs /\ j.ev \in Event /\ j.ev.credit \in Nat
  BY DEF JobInv, Job, Writing
<1> HIDE DEF t, cart, total
<1>6. ev \in Event /\ ev.tier = t /\ ev.credit = j.ev.credit
  BY <1>1, <1>3, <1>5 DEF Event
<1> HIDE DEF ev
<1>7. rec \in Job
  <2>1. "drop" \in PCs /\ "credit" \in Stages /\ c \in Sats
    BY DEF PCs, Stages, Sats
  <2> QED
    BY <1>2, <1>6, <2>1 DEF Job
<1>8. /\ rec.pc = "drop" /\ rec.stage = "credit" /\ rec.user = j.user /\ rec.tx = j.tx
      /\ rec.rem = j.rem /\ rec.seen = c /\ rec.ev = ev /\ rec.cart = cart
  BY DEF Job
<1> QED
  BY <1>1, <1>2, <1>4, <1>5, <1>6, <1>7, <1>8 DEF JobInv, Writing

\* Moving a goroutine on.
LEMMA MoveType ==
    ASSUME NEW j \in Job, NEW pc \in PCs, NEW rec, rec = [j EXCEPT !.pc = pc]
    PROVE  /\ rec \in Job /\ rec.pc = pc /\ rec.stage = j.stage /\ rec.user = j.user
           /\ rec.tx = j.tx /\ rec.rem = j.rem /\ rec.seen = j.seen /\ rec.ev = j.ev
           /\ rec.cart = j.cart
BY DEF Job

\* Most moves promise nothing new.
LEMMA MoveInv ==
    ASSUME NEW j, NEW sold, JobInv(j, sold), j.pc # "idle", j.stage # "usage",
           NEW pc \in {"total", "bank", "refresh", "leftover", "apply", "final", "notify"}
    PROVE  JobInv([j EXCEPT !.pc = pc], sold)
<1> DEFINE rec == [j EXCEPT !.pc = pc]
<1>1. j \in Job /\ pc \in PCs
  BY DEF JobInv, PCs
<1>2. /\ rec \in Job /\ rec.pc = pc /\ rec.stage = j.stage /\ rec.user = j.user
      /\ rec.tx = j.tx /\ rec.rem = j.rem /\ rec.seen = j.seen /\ rec.ev = j.ev
      /\ rec.cart = j.cart
  BY <1>1, MoveType
<1> HIDE DEF rec
<1>3. JobInv(rec, sold)
  BY <1>2 DEF JobInv, Writing
<1> QED
  BY <1>3 DEF rec

-----------------------------------------------------------------------------
(* Steps that leave the stores alone.                                       *)

LEMMA QuietStores ==
    ASSUME IInv, UNCHANGED <<stores, month, bought>>,
           received' \in [Users -> Nat], count' \in Count
    PROVE  StoreTypes' /\ OtherTypes' /\ ShownCredit' /\ PaidIsPublished'
BY DEF IInv, StoreTypes, OtherTypes, ShownCredit, PaidIsPublished, stores

LEMMA QuietStep ==
    ASSUME IInv, UNCHANGED <<stores, month, received, bought, count>>,
           NEW w \in Workers, NEW rec, Go(w, rec), JobInv(rec, bought)
    PROVE  IInv'
<1>1. received' \in [Users -> Nat] /\ count' \in Count
  BY DEF IInv, OtherTypes
<1>2. StoreTypes' /\ OtherTypes' /\ ShownCredit' /\ PaidIsPublished'
  BY <1>1, QuietStores
<1>3. JobsOK'
  BY QuietJobStep
<1> QED
  BY <1>2, <1>3 DEF IInv

LEMMA CountTypes ==
    ASSUME count \in Count, NEW tx \in Txs
    PROVE  /\ [count EXCEPT !.tx[tx] = @ + 1] \in Count
           /\ [count EXCEPT !.upload = @ + 1] \in Count
           /\ [count EXCEPT !.login = @ + 1] \in Count
           /\ [count EXCEPT !.readback = @ + 1] \in Count
           /\ [count EXCEPT !.restart = @ + 1] \in Count
BY DEF Count

\* The job of a delivery that was not known, and of the event's rewriters.
LEMMA FreshJobs ==
    ASSUME NEW u \in Users, NEW sold
    PROVE  /\ \A tx \in Txs : JobInv([Idle EXCEPT !.pc = "save", !.tx = tx, !.user = u], sold)
           /\ \A pc \in {"drop", "sign"}, ev \in Event :
                 ev.credit \in Nat =>
                 JobInv([Idle EXCEPT !.pc = pc, !.stage = "usage", !.user = u, !.ev = ev], sold)
<1>0. Idle \in Job /\ Idle.rem = 0 /\ Idle.seen = 0 /\ Idle.ev.credit = 0 /\ Idle.stage = "none"
  BY IdleInv DEF JobInv, Idle
<1>1. ASSUME NEW tx \in Txs
      PROVE  JobInv([Idle EXCEPT !.pc = "save", !.tx = tx, !.user = u], sold)
  <2> DEFINE rec == [Idle EXCEPT !.pc = "save", !.tx = tx, !.user = u]
  <2>1. "save" \in PCs /\ tx \in MaybeTx /\ u \in MaybeUser
    BY DEF PCs, MaybeTx, MaybeUser
  <2>2. rec \in Job
    BY <1>0, <2>1 DEF Job
  <2>3. /\ rec.pc = "save" /\ rec.tx = tx /\ rec.user = u /\ rec.stage = "none"
        /\ rec.rem = 0 /\ rec.seen = 0 /\ rec.ev.credit = 0
    BY <1>0 DEF Job
  <2> HIDE DEF rec
  <2>4. JobInv(rec, sold)
    BY <2>2, <2>3 DEF JobInv, Writing
  <2> QED
    BY <2>4 DEF rec
<1>2. ASSUME NEW pc \in {"drop", "sign"}, NEW ev \in Event, ev.credit \in Nat
      PROVE  JobInv([Idle EXCEPT !.pc = pc, !.stage = "usage", !.user = u, !.ev = ev], sold)
  <2> DEFINE rec == [Idle EXCEPT !.pc = pc, !.stage = "usage", !.user = u, !.ev = ev]
  <2>1. pc \in PCs /\ "usage" \in Stages /\ u \in MaybeUser
    BY DEF PCs, Stages, MaybeUser
  <2>2. rec \in Job
    BY <1>0, <2>1 DEF Job
  <2>3. /\ rec.pc = pc /\ rec.user = u /\ rec.stage = "usage"
        /\ rec.rem = 0 /\ rec.seen = 0 /\ rec.ev = ev
    BY <1>0 DEF Job
  <2> HIDE DEF rec
  <2>4. Writing(rec) /\ rec.ev.credit \in Nat
        /\ rec.pc \notin {"reset", "read", "paid", "charge", "cascade", "idle"}
    BY <1>2, <2>3 DEF Writing
  <2>5. JobInv(rec, sold)
    BY <2>2, <2>3, <2>4 DEF JobInv
  <2> QED
    BY <2>5 DEF rec
<1> QED
  BY <1>1, <1>2

LEMMA DeliverStep == ASSUME IInv, NEW w \in Workers, NEW tx \in Txs, NEW exact \in BOOLEAN,
             Deliver(w, tx, exact)
      PROVE  IInv'
<1>1. count' \in Count /\ received' \in [Users -> Nat]
  BY CountTypes DEF Deliver, IInv, OtherTypes
<1>2. StoreTypes' /\ OtherTypes' /\ ShownCredit' /\ PaidIsPublished'
  BY <1>1, QuietStores DEF Deliver
<1>3. TxUser[tx] \in Users
  BY TxAssumption
<1>4. CASE Known(tx, exact)
  <2>1. Go(w, Idle) /\ bought' = bought
    BY <1>4 DEF Deliver
  <2>2. JobsOK'
    BY <2>1, IdleInv, QuietJobStep
  <2> QED
    BY <1>2, <2>2 DEF IInv
<1>5. CASE ~Known(tx, exact)
  <2>1. Go(w, [Idle EXCEPT !.pc = "save", !.tx = tx, !.user = TxUser[tx]]) /\ bought' = bought
    BY <1>5 DEF Deliver
  <2>2. JobInv([Idle EXCEPT !.pc = "save", !.tx = tx, !.user = TxUser[tx]], bought)
    BY <1>3, FreshJobs
  <2>3. JobsOK'
    BY <2>1, <2>2, QuietJobStep
  <2> QED
    BY <1>2, <2>3 DEF IInv
<1> QED
  BY <1>4, <1>5

\* An upload, a login and a read-back differ in the event they write.
LEMMA RewriteStep ==
    ASSUME IInv, NEW w \in Workers, NEW u \in Users,
           NEW pc \in {"drop", "sign"}, NEW ev \in Event, ev.credit \in Nat,
           Go(w, [Idle EXCEPT !.pc = pc, !.stage = "usage", !.user = u, !.ev = ev]),
           count' \in Count, UNCHANGED <<stores, month, received, bought>>
    PROVE  IInv'
<1>1. StoreTypes' /\ OtherTypes' /\ ShownCredit' /\ PaidIsPublished'
  BY QuietStores DEF IInv, OtherTypes
<1>2. JobInv([Idle EXCEPT !.pc = pc, !.stage = "usage", !.user = u, !.ev = ev], bought)
  BY FreshJobs
<1>3. JobsOK'
  BY <1>2, QuietJobStep
<1> QED
  BY <1>1, <1>3 DEF IInv

LEMMA UploadStep == ASSUME IInv, NEW w \in Workers, NEW u \in Users, Upload(w, u) PROVE IInv'
<1>1. Head(events[u]) \in Event /\ Head(events[u]).credit \in Nat
  BY HeadEvent DEF Upload
<1> DEFINE ev == [Head(events[u]) EXCEPT !.used = @ + 1]
<1>2. ev \in Event /\ ev.credit \in Nat
  BY <1>1 DEF Event
<1>3. count' \in Count
  <2>1. count \in Count /\ count' = [count EXCEPT !.upload = @ + 1]
    BY DEF Upload, IInv, OtherTypes
  <2> QED
    BY <2>1 DEF Count
<1>4. Go(w, [Idle EXCEPT !.pc = "drop", !.stage = "usage", !.user = u, !.ev = ev])
  BY DEF Upload
<1>5. UNCHANGED <<stores, month, received, bought>>
  BY DEF Upload
<1> HIDE DEF ev
<1> QED
  BY <1>2, <1>3, <1>4, <1>5, RewriteStep

LEMMA LoginStep == ASSUME IInv, NEW w \in Workers, NEW u \in Users, Login(w, u) PROVE IInv'
<1>1. FirstEvent \in Event /\ FirstEvent.credit \in Nat
  BY FirstEventType DEF IInv, OtherTypes
<1>2. count' \in Count
  <2>1. count \in Count /\ count' = [count EXCEPT !.login = @ + 1]
    BY DEF Login, IInv, OtherTypes
  <2> QED
    BY <2>1 DEF Count
<1>3. Go(w, [Idle EXCEPT !.pc = "sign", !.stage = "usage", !.user = u, !.ev = FirstEvent])
  BY DEF Login
<1>4. UNCHANGED <<stores, month, received, bought>>
  BY DEF Login
<1> QED
  BY <1>1, <1>2, <1>3, <1>4, RewriteStep

LEMMA ReadBackStep == ASSUME IInv, NEW w \in Workers, NEW u \in Users, ReadBack(w, u) PROVE IInv'
<1>1. Head(events[u]) \in Event /\ Head(events[u]).credit \in Nat
  BY HeadEvent DEF ReadBack
<1>2. Expected(Head(events[u])) \in Event /\ Expected(Head(events[u])).credit \in Nat
  BY <1>1, EventTypes, TierTypes DEF IInv, OtherTypes
<1>3. count' \in Count
  <2>1. count \in Count /\ count' = [count EXCEPT !.readback = @ + 1]
    BY DEF ReadBack, IInv, OtherTypes
  <2> QED
    BY <2>1 DEF Count
<1>4. Go(w, [Idle EXCEPT !.pc = "sign", !.stage = "usage", !.user = u,
                         !.ev = Expected(Head(events[u]))])
  BY DEF ReadBack
<1>5. UNCHANGED <<stores, month, received, bought>>
  BY DEF ReadBack
<1> QED
  BY <1>2, <1>3, <1>4, <1>5, RewriteStep

LEMMA TotalStep == ASSUME IInv, NEW w \in Workers, Total(w) PROVE IInv'
<1> DEFINE u == User(w)
           sats == TxSats[job[w].tx]
           pc == Decision(sats + credit[u], credit[u])
           rec == [job[w] EXCEPT !.pc = pc, !.seen = credit[u], !.rem = sats]
<1>1. /\ job[w] \in Job /\ JobInv(job[w], bought) /\ job[w].pc = "total"
      /\ u \in Users /\ credit[u] \in Nat
  BY JobFacts DEF Total, At
<1>2. job[w].stage # "usage" /\ job[w].tx \in Txs
  BY <1>1 DEF JobInv, Writing
<1>3. sats \in Nat
  BY <1>2, TxAssumption
<1>4. pc \in {"bank", "reset", "read"} /\ pc \in PCs
  BY DEF Decision, PCs
<1>5. pc \in {"reset", "read"} => Payable(sats + credit[u])
  BY DEF Decision, Payable
<1>6. rec \in Job
  <2>1. credit[u] \in Sats /\ sats \in Sats
    BY <1>1, <1>3 DEF Sats
  <2> HIDE DEF u, sats, pc
  <2> QED
    BY <1>1, <1>4, <2>1 DEF Job
<1>7. /\ rec.pc = pc /\ rec.stage = job[w].stage /\ rec.user = job[w].user
      /\ rec.tx = job[w].tx /\ rec.rem = sats /\ rec.seen = credit[u]
      /\ rec.ev = job[w].ev
  <2> HIDE DEF u, sats, pc
  <2> QED
    BY <1>1 DEF Job
<1>8. Go(w, rec) /\ bought' = bought
  BY DEF Total
<1>9. received' \in [Users -> Nat] /\ count' \in Count
  <2>1. received' = [received EXCEPT ![u] = @ + sats] /\ received \in [Users -> Nat]
    BY DEF Total, IInv, OtherTypes
  <2>2. count' = count /\ count \in Count
    BY DEF Total, IInv, OtherTypes
  <2> HIDE DEF u, sats
  <2> QED
    BY <1>1, <1>3, <2>1, <2>2
<1>10. StoreTypes' /\ OtherTypes' /\ ShownCredit' /\ PaidIsPublished'
  BY <1>9, QuietStores DEF Total
<1> HIDE DEF u, sats, pc, rec
<1>11. Payable(rec.rem + rec.seen) \/ rec.pc = "bank"
  BY <1>4, <1>5, <1>7
<1>12. JobInv(rec, bought)
  BY <1>1, <1>2, <1>3, <1>4, <1>6, <1>7, <1>11 DEF JobInv, Writing
<1>13. JobsOK'
  BY <1>8, <1>12, QuietJobStep
<1> QED
  BY <1>10, <1>13 DEF IInv

LEMMA RejectAmountStep == ASSUME IInv, NEW w \in Workers, RejectAmount(w) PROVE IInv'
<1>1. Go(w, Idle) /\ JobInv(Idle, bought)
  BY IdleInv DEF RejectAmount
<1> QED
  BY <1>1, QuietStep DEF RejectAmount

\* A payment's job with its next event filled in.
LEMMA WriteInv ==
    ASSUME NEW j, NEW sold, JobInv(j, sold), j.pc # "idle", j.stage # "usage",
           NEW stage \in {"refresh", "final"}, NEW ev \in Event, ev.credit \in Nat
    PROVE  JobInv([j EXCEPT !.pc = "drop", !.stage = stage, !.ev = ev], sold)
<1> DEFINE rec == [j EXCEPT !.pc = "drop", !.stage = stage, !.ev = ev]
<1>1. j \in Job /\ "drop" \in PCs /\ stage \in Stages
  BY DEF JobInv, PCs, Stages
<1>2. rec \in Job
  BY <1>1 DEF Job
<1>3. /\ rec.pc = "drop" /\ rec.stage = stage /\ rec.user = j.user /\ rec.tx = j.tx
      /\ rec.rem = j.rem /\ rec.seen = j.seen /\ rec.ev = ev
  BY <1>1 DEF Job
<1> HIDE DEF rec
<1>4. JobInv(rec, sold)
  BY <1>2, <1>3 DEF JobInv, Writing
<1> QED
  BY <1>4 DEF rec

\* Except on its way to rewrite the event, a job with work left pays.
LEMMA PayingJob ==
    ASSUME IInv, NEW w \in Workers, job[w].pc # "idle", ~Writing(job[w])
    PROVE  job[w].stage # "usage" /\ job[w].tx \in Txs
BY JobFacts DEF JobInv

LEMMA RefreshStep == ASSUME IInv, NEW w \in Workers, Refresh(w) PROVE IInv'
<1> DEFINE u == User(w)
           ev == Head(events[u])
<1>1. job[w].pc = "refresh" /\ JobInv(job[w], bought) /\ job[w].stage # "usage" /\ u \in Users
  BY JobFacts, PayingJob DEF Refresh, At, Writing
<1>2. UNCHANGED <<stores, month, received, bought, count>>
  BY DEF Refresh
<1>3. CASE events[u] = <<>>
  <2>1. Go(w, [job[w] EXCEPT !.pc = "notify"])
    BY <1>3 DEF Refresh
  <2>2. JobInv([job[w] EXCEPT !.pc = "notify"], bought)
    BY <1>1, MoveInv
  <2> QED
    BY <1>2, <2>1, <2>2, QuietStep
<1>4. CASE events[u] # <<>>
  <2>1. Go(w, [job[w] EXCEPT !.pc = "drop", !.stage = "refresh", !.ev = ev])
    BY <1>4 DEF Refresh
  <2>2. ev \in Event /\ ev.credit \in Nat
    BY <1>1, <1>4, HeadEvent
  <2> HIDE DEF ev
  <2>3. JobInv([job[w] EXCEPT !.pc = "drop", !.stage = "refresh", !.ev = ev], bought)
    BY <1>1, <2>2, WriteInv
  <2> QED
    BY <1>2, <2>1, <2>3, QuietStep
<1> QED
  BY <1>3, <1>4

LEMMA ReadStep == ASSUME IInv, NEW w \in Workers, Read(w) PROVE IInv'
<1> DEFINE u == User(w)
           e == Head(events[u])
           a == Funds(w)
<1>1. /\ job[w].pc = "read" /\ job[w] \in Job /\ JobInv(job[w], bought)
      /\ job[w].user \in Users /\ u = job[w].user
      /\ job[w].stage # "usage" /\ job[w].tx \in Txs
  BY JobFacts, PayingJob DEF Read, At, Writing, User
<1>2. UNCHANGED <<stores, month, received, bought, count>> /\ month \in Nat
  BY DEF Read, IInv, OtherTypes
<1>3. a \in Nat /\ Payable(a)
  BY <1>1 DEF JobInv, Funds
<1>4. CASE events[u] = <<>>
  <2>1. Go(w, Idle)
    BY <1>4 DEF Read
  <2> QED
    BY <1>2, <2>1, IdleInv, QuietStep
<1>5. CASE events[u] # <<>>
  <2>1. Go(w, Purchase(job[w], e, a))
    BY <1>5 DEF Read
  <2>2. e \in Event /\ e.credit \in Nat
    BY <1>1, <1>5, HeadEvent
  <2> HIDE DEF e, a
  <2>3. JobInv(Purchase(job[w], e, a), bought)
    <3>1. CASE AboveHighest(a)
      BY <1>1, <1>2, <1>3, <2>2, <3>1, BuyHighInv DEF Purchase
    <3>2. CASE ~AboveHighest(a)
      <4>1. Affordable(a) # {}
        BY <1>3, <3>2 DEF Payable
      <4> QED
        BY <1>1, <1>2, <1>3, <2>2, <3>2, <4>1, BuyOneInv DEF Purchase
    <3> QED
      BY <3>1, <3>2
  <2> QED
    BY <1>2, <2>1, <2>3, QuietStep
<1> QED
  BY <1>4, <1>5

LEMMA SignStep == ASSUME IInv, NEW w \in Workers, Sign(w) PROVE IInv'
<1> DEFINE j == job[w]
           c == credit[User(w)]
           ev == [j.ev EXCEPT !.credit = c]
           rec == [j EXCEPT !.pc = "store", !.ev = ev]
<1>1. j.pc = "sign" /\ j \in Job /\ JobInv(j, bought) /\ c \in Nat
  BY JobFacts DEF Sign, At
<1>2. j.ev \in Event
  BY <1>1 DEF Job
<1>3. ev \in Event /\ ev.credit = c /\ ev.tier = j.ev.tier
  BY <1>1, <1>2 DEF Event
<1>4. Go(w, rec) /\ UNCHANGED <<stores, month, received, bought, count>>
  BY <1>1 DEF Sign, Job, Event
<1> HIDE DEF j, c, ev
<1>5. rec \in Job
  <2>1. "store" \in PCs
    BY DEF PCs
  <2> QED
    BY <1>1, <1>3, <2>1 DEF Job
<1>6. /\ rec.pc = "store" /\ rec.stage = j.stage /\ rec.user = j.user /\ rec.tx = j.tx
      /\ rec.rem = j.rem /\ rec.seen = j.seen /\ rec.ev = ev /\ rec.cart = j.cart
  BY <1>1 DEF Job
<1> HIDE DEF rec
<1>7. JobInv(rec, bought)
  BY <1>1, <1>3, <1>5, <1>6 DEF JobInv, Writing
<1> QED
  BY <1>4, <1>7, QuietStep

\* The remainder is credit, or there is none.
LEMMA SettleMoves ==
    ASSUME NEW j PROVE Settle(j) \in {"leftover", "final", "notify"}
BY DEF Settle

LEMMA CascadeStep == ASSUME IInv, NEW w \in Workers, Cascade(w) PROVE IInv'
<1> DEFINE j == job[w]
<1>1. /\ j.pc = "cascade" /\ j \in Job /\ JobInv(j, bought)
      /\ j.stage # "usage" /\ j.tx \in Txs
  BY JobFacts, PayingJob DEF Cascade, At, Writing
<1>2. UNCHANGED <<stores, month, received, bought, count>>
  BY DEF Cascade
<1>3. CASE InReach(j) # {}
  <2>1. Go(w, Take(j, Best(InReach(j))))
    BY <1>3 DEF Cascade
  <2>2. InReach(j) \in SUBSET Tiers
    BY <1>1 DEF InReach, Job, Pool
  <2>3. Best(InReach(j)) \in InReach(j)
    BY <1>3, <2>2, BestIsDearest
  <2> HIDE DEF j
  <2>4. JobInv(Take(j, Best(InReach(j))), bought)
    BY <1>1, <2>3, TakeInv
  <2> QED
    BY <1>2, <2>1, <2>4, QuietStep
<1>4. CASE InReach(j) = {} /\ j.ev.total > j.base
  <2> DEFINE rec == [j EXCEPT !.pc = "drop", !.stage = "extra"]
  <2>1. Go(w, rec)
    BY <1>4 DEF Cascade
  <2> HIDE DEF j
  <2>2. rec \in Job
    <3>1. "drop" \in PCs /\ "extra" \in Stages
      BY DEF PCs, Stages
    <3> QED
      BY <1>1, <3>1 DEF Job
  <2>3. /\ rec.pc = "drop" /\ rec.stage = "extra" /\ rec.user = j.user /\ rec.tx = j.tx
        /\ rec.rem = j.rem /\ rec.seen = j.seen /\ rec.ev = j.ev
    BY <1>1 DEF Job
  <2> HIDE DEF rec
  <2>4. JobInv(rec, bought)
    BY <1>1, <2>2, <2>3 DEF JobInv, Writing
  <2> QED
    BY <1>2, <2>1, <2>4, QuietStep
<1>5. CASE InReach(j) = {} /\ ~(j.ev.total > j.base)
  <2>1. Go(w, [j EXCEPT !.pc = Settle(j)])
    BY <1>5 DEF Cascade
  <2>2. JobInv([j EXCEPT !.pc = Settle(j)], bought)
    BY <1>1, MoveInv, SettleMoves
  <2> QED
    BY <1>2, <2>1, <2>2, QuietStep
<1> QED
  BY <1>3, <1>4, <1>5

LEMMA ApplyStep == ASSUME IInv, NEW w \in Workers, Apply(w) PROVE IInv'
<1> DEFINE j == job[w]
           c == credit[User(w)]
<1>1. /\ j.pc = "apply" /\ j \in Job /\ JobInv(j, bought) /\ c \in Nat
      /\ j.stage # "usage"
  BY JobFacts, PayingJob DEF Apply, At, Writing
<1>2. UNCHANGED <<stores, month, received, bought, count>>
  BY DEF Apply
<1>3. CASE Affordable(c) = {}
  <2>1. Go(w, [j EXCEPT !.pc = "final"])
    BY <1>3 DEF Apply
  <2>2. JobInv([j EXCEPT !.pc = "final"], bought)
    BY <1>1, MoveInv
  <2> QED
    BY <1>2, <2>1, <2>2, QuietStep
<1>4. CASE Affordable(c) # {}
  <2>1. Go(w, BuyOnCredit(j, Best(Affordable(c)), c))
    BY <1>4 DEF Apply
  <2>2. JobInv(BuyOnCredit(j, Best(Affordable(c)), c), bought)
    BY <1>1, <1>4, BuyOnCreditInv
  <2> QED
    BY <1>2, <2>1, <2>2, QuietStep
<1> QED
  BY <1>3, <1>4

LEMMA FinalStep == ASSUME IInv, NEW w \in Workers, Final(w) PROVE IInv'
<1> DEFINE j == job[w]
           ev == [j.ev EXCEPT !.tier = j.tier]
<1>1. /\ j.pc = "final" /\ j \in Job /\ JobInv(j, bought) /\ j.stage # "usage"
  BY JobFacts, PayingJob DEF Final, At, Writing
<1>2. UNCHANGED <<stores, month, received, bought, count>>
  BY DEF Final
<1>3. CASE credit[User(w)] > 0
  <2>1. Go(w, [j EXCEPT !.pc = "drop", !.stage = "final", !.ev = ev])
    BY <1>1, <1>3 DEF Final, Job, Event
  <2>2. j.ev \in Event /\ j.tier \in Tiers /\ j.ev.credit \in Nat
    BY <1>1 DEF Job, JobInv
  <2>3. ev \in Event /\ ev.credit \in Nat
    BY <2>2 DEF Event
  <2> HIDE DEF ev
  <2>4. JobInv([j EXCEPT !.pc = "drop", !.stage = "final", !.ev = ev], bought)
    BY <1>1, <2>3, WriteInv
  <2> QED
    BY <1>2, <2>1, <2>4, QuietStep
<1>4. CASE ~(credit[User(w)] > 0)
  <2>1. Go(w, [j EXCEPT !.pc = "notify"])
    BY <1>4 DEF Final
  <2>2. JobInv([j EXCEPT !.pc = "notify"], bought)
    BY <1>1, MoveInv
  <2> QED
    BY <1>2, <2>1, <2>2, QuietStep
<1> QED
  BY <1>3, <1>4

-----------------------------------------------------------------------------
(* Steps that write the credit.                                             *)

LEMMA CreditStep ==
    ASSUME IInv, NEW w \in Workers, User(w) \in Users, NEW c \in Nat,
           credit' = [credit EXCEPT ![User(w)] = c], NEW rec, Go(w, rec), JobInv(rec, bought),
           UNCHANGED <<events, paid, saved, notes, month, received, bought, count>>
    PROVE  IInv'
<1>1. StoreTypes'
  BY DEF IInv, StoreTypes
<1>2. OtherTypes' /\ ShownCredit' /\ PaidIsPublished'
  BY DEF IInv, OtherTypes, ShownCredit, PaidIsPublished
<1>3. JobsOK'
  BY QuietJobStep
<1> QED
  BY <1>1, <1>2, <1>3 DEF IInv

LEMMA BankStep == ASSUME IInv, NEW w \in Workers, Bank(w) PROVE IInv'
<1>1. /\ job[w].pc = "bank" /\ JobInv(job[w], bought)
      /\ job[w].stage # "usage" /\ User(w) \in Users
  BY JobFacts, PayingJob DEF Bank, At, Writing
<1>2. BankedCredit(w) \in Nat
  BY <1>1 DEF JobInv, BankedCredit
<1>3. JobInv([job[w] EXCEPT !.pc = "refresh"], bought)
  BY <1>1, MoveInv
<1> QED
  BY <1>1, <1>2, <1>3, CreditStep DEF Bank

LEMMA ResetStep == ASSUME IInv, NEW w \in Workers, Reset(w) PROVE IInv'
<1> DEFINE j == job[w]
           rec == [j EXCEPT !.pc = "read"]
<1>1. j.pc = "reset" /\ j \in Job /\ JobInv(j, bought) /\ User(w) \in Users
  BY JobFacts DEF Reset, At
<1>2. "read" \in PCs
  BY DEF PCs
<1>3. /\ rec \in Job /\ rec.pc = "read" /\ rec.stage = j.stage /\ rec.user = j.user
      /\ rec.tx = j.tx /\ rec.rem = j.rem /\ rec.seen = j.seen /\ rec.ev = j.ev
      /\ rec.cart = j.cart
  BY <1>1, <1>2, MoveType
<1>4. Go(w, rec)
  BY DEF Reset
<1> HIDE DEF j, rec
<1>5. Payable(rec.rem + rec.seen) /\ ~Writing(j) /\ ~Writing(rec)
  BY <1>1, <1>3 DEF JobInv, Writing
<1>6. JobInv(rec, bought)
  <2>1. j.stage # "usage" /\ j.tx \in Txs /\ j.user \in Users
    BY <1>1, <1>5 DEF JobInv
  <2>2. rec.rem \in Nat /\ rec.seen \in Nat /\ rec.ev.credit \in Nat
    BY <1>1, <1>3 DEF JobInv
  <2> QED
    BY <1>3, <1>5, <2>1, <2>2 DEF JobInv
<1> QED
  BY <1>1, <1>4, <1>6, CreditStep DEF Reset

LEMMA LeftoverStep == ASSUME IInv, NEW w \in Workers, Leftover(w) PROVE IInv'
<1>1. /\ job[w].pc = "leftover" /\ JobInv(job[w], bought)
      /\ job[w].stage # "usage" /\ User(w) \in Users
  BY JobFacts, PayingJob DEF Leftover, At, Writing
<1>2. job[w].rem \in Nat
  BY <1>1 DEF JobInv
<1>3. JobInv([job[w] EXCEPT !.pc = "apply"], bought)
  BY <1>1, MoveInv
<1> QED
  BY <1>1, <1>2, <1>3, CreditStep DEF Leftover

\* The tier bought on credit costs no more than the credit that was read.
LEMMA ChargeStep == ASSUME IInv, NEW w \in Workers, Charge(w) PROVE IInv'
<1> DEFINE j == job[w]
<1>1. /\ j.pc = "charge" /\ j \in Job /\ JobInv(j, bought)
      /\ j.stage # "usage" /\ User(w) \in Users
  BY JobFacts, PayingJob DEF Charge, At, Writing
<1>2. j.stage = "credit" /\ Price[j.ev.tier] <= j.seen /\ j.seen \in Nat
  BY <1>1 DEF JobInv
<1>3. j.ev.tier \in Tiers /\ Price[j.ev.tier] \in Nat
  BY <1>1, TierTypes DEF Job, Event
<1>4. Remaining(j) \in Nat
  BY <1>2, <1>3 DEF Remaining
<1>5. AfterCharge(j) \in {"apply", "final"}
  BY DEF AfterCharge
<1>6. JobInv([j EXCEPT !.pc = AfterCharge(j)], bought)
  BY <1>1, <1>5, MoveInv
<1> QED
  BY <1>1, <1>4, <1>6, CreditStep DEF Charge

-----------------------------------------------------------------------------
(* Steps that write another store.                                          *)

LEMMA SaveStep == ASSUME IInv, NEW w \in Workers, Save(w) PROVE IInv'
<1>1. /\ job[w].pc = "save" /\ JobInv(job[w], bought)
      /\ job[w].stage # "usage" /\ job[w].tx \in Txs
  BY JobFacts, PayingJob DEF Save, At, Writing
<1>2. StoreTypes'
  BY <1>1 DEF Save, IInv, StoreTypes
<1>3. OtherTypes' /\ ShownCredit' /\ PaidIsPublished'
  BY DEF Save, IInv, OtherTypes, ShownCredit, PaidIsPublished
<1>4. JobInv([job[w] EXCEPT !.pc = "total"], bought)
  BY <1>1, MoveInv
<1>5. JobsOK'
  BY <1>4, QuietJobStep DEF Save
<1> QED
  BY <1>2, <1>3, <1>5 DEF IInv

LEMMA NotifyStep == ASSUME IInv, NEW w \in Workers, Notify(w) PROVE IInv'
<1>1. /\ job[w].pc = "notify" /\ job[w] \in Job /\ JobInv(job[w], bought)
      /\ job[w].tx \in Txs
  BY JobFacts, PayingJob DEF Notify, At, Writing
<1>2. notes' \subseteq [tx : Txs, isNew : BOOLEAN]
  <2>1. IsNewSubscriber(User(w)) \in BOOLEAN
    BY DEF IsNewSubscriber
  <2>2. [tx |-> job[w].tx, isNew |-> IsNewSubscriber(User(w))] \in [tx : Txs, isNew : BOOLEAN]
    BY <1>1, <2>1
  <2> QED
    BY <2>2 DEF Notify, IInv, StoreTypes
<1>3. StoreTypes'
  BY <1>2 DEF Notify, IInv, StoreTypes
<1>4. OtherTypes' /\ ShownCredit' /\ PaidIsPublished'
  BY DEF Notify, IInv, OtherTypes, ShownCredit, PaidIsPublished
<1>5. JobsOK'
  BY IdleInv, QuietJobStep DEF Notify
<1> QED
  BY <1>3, <1>4, <1>5 DEF IInv

LEMMA RecordPaidStep == ASSUME IInv, NEW w \in Workers, RecordPaid(w) PROVE IInv'
<1> DEFINE j == job[w]
           u == User(w)
           rec == [j EXCEPT !.pc = AfterPaid(j)]
<1>1. /\ j.pc = "paid" /\ j \in Job /\ JobInv(j, bought)
      /\ j.stage # "usage" /\ u \in Users /\ u = j.user
  BY JobFacts, PayingJob DEF RecordPaid, At, Writing, User
<1>2. bought[u].sats > 0
  <2> HIDE DEF j, u
  <2>1. Sold(bought, j.user)
    BY <1>1 DEF JobInv
  <2>2. Sold(bought, u)
    BY <1>1, <2>1
  <2> QED
    BY <2>2 DEF Sold
<1>3. PaidRecord(j) \in [tier : Tiers, exp : Nat, bytes : Nat]
  BY <1>1 DEF PaidRecord, Job, Event
<1>4. paid' = [paid EXCEPT ![u] = PaidRecord(j)]
  BY DEF RecordPaid
<1>5. \A v \in Users : v # u => paid'[v] = paid[v]
  BY <1>4
<1>6. paid'[u] = PaidRecord(j) \/ paid'[u] = paid[u]
  BY <1>4
<1>7. StoreTypes'
  <2> HIDE DEF j, u
  <2> QED
    BY <1>1, <1>3, <1>5, <1>6 DEF RecordPaid, IInv, StoreTypes
<1>8. OtherTypes' /\ ShownCredit'
  BY DEF RecordPaid, IInv, OtherTypes, ShownCredit
<1>9. PaidIsPublished'
  <2> HIDE DEF j, u
  <2>1. bought' = bought /\ PaidIsPublished
    BY DEF RecordPaid, IInv
  <2> QED
    BY <1>2, <1>5, <2>1 DEF PaidIsPublished
<1>10. Go(w, rec) /\ bought' = bought
  BY DEF RecordPaid
<1>11. /\ AfterPaid(j) \in {"charge", "cascade", "leftover", "final", "notify"}
       /\ AfterPaid(j) = "charge" <=> j.stage = "credit"
  BY SettleMoves DEF AfterPaid
<1>12. AfterPaid(j) \in PCs
  BY <1>11 DEF PCs
<1>13. /\ rec \in Job /\ rec.pc = AfterPaid(j) /\ rec.stage = j.stage /\ rec.user = j.user
       /\ rec.tx = j.tx /\ rec.rem = j.rem /\ rec.seen = j.seen /\ rec.ev = j.ev
       /\ rec.cart = j.cart
  BY <1>1, <1>12, MoveType
<1> HIDE DEF j, u, rec
<1>14. ~Writing(j) /\ ~Writing(rec)
  BY <1>1, <1>11, <1>13 DEF Writing
<1>15. JobInv(rec, bought)
  BY <1>1, <1>11, <1>13, <1>14 DEF JobInv
<1>16. JobsOK'
  BY <1>10, <1>15, QuietJobStep
<1> QED
  BY <1>7, <1>8, <1>9, <1>16 DEF IInv

\* A goroutine that finds or deletes the events of its user keeps all else.
Clearing(j, rec) ==
    /\ rec \in Job /\ rec.pc \in {"delete", "sign"}
    /\ rec.stage = j.stage /\ rec.user = j.user /\ rec.tx = j.tx /\ rec.rem = j.rem
    /\ rec.seen = j.seen /\ rec.ev = j.ev /\ rec.cart = j.cart /\ rec.high = j.high
    /\ rec.base = j.base

LEMMA ClearingMoves ==
    ASSUME NEW j \in Job, NEW S \in SUBSET Nat
    PROVE  /\ Clearing(j, [j EXCEPT !.pc = "delete", !.found = S])
           /\ Clearing(j, [j EXCEPT !.pc = "sign"])
           /\ j.pc = "delete" => Clearing(j, [j EXCEPT !.found = S])
           /\ Clearing(j, Dropped([j EXCEPT !.found = S]))
<1>1. {"delete", "sign"} \subseteq PCs
  BY DEF PCs
<1>2. Clearing(j, [j EXCEPT !.pc = "delete", !.found = S])
  BY <1>1 DEF Clearing, Job, Found
<1>3. Clearing(j, [j EXCEPT !.pc = "sign"])
  BY <1>1 DEF Clearing, Job
<1>4. j.pc = "delete" => Clearing(j, [j EXCEPT !.found = S])
  BY <1>1 DEF Clearing, Job, Found
<1>5. Clearing(j, Dropped([j EXCEPT !.found = S]))
  BY <1>1 DEF Clearing, Job, Found, Dropped
<1> QED
  BY <1>2, <1>3, <1>4, <1>5

\* Deleting an event leaves a list of the others.
LEMMA DeletedList ==
    ASSUME NEW es \in Seq(Event), NEW id
    PROVE  /\ Deleted(es, id) \in Seq(Event)
           /\ \A i \in DOMAIN Deleted(es, id) :
                 \E k \in DOMAIN es : Deleted(es, id)[i] = es[k]
<1>1. CASE id \notin Ids(es)
  BY <1>1 DEF Deleted
<1>2. CASE id \in Ids(es)
  <2> DEFINE k == CHOOSE i \in DOMAIN es : es[i].id = id
  <2>1. k \in DOMAIN es
    BY <1>2 DEF Ids
  <2>2. Deleted(es, id) = Without(es, k)
    BY <1>2 DEF Deleted
  <2> HIDE DEF k
  <2>3. Len(es) \in Nat /\ DOMAIN es = 1..Len(es) /\ Len(es) - 1 \in Nat
    BY <2>1
  <2>4. DOMAIN Without(es, k) = 1..(Len(es) - 1)
    BY DEF Without
  <2>5. ASSUME NEW i \in 1..(Len(es) - 1)
        PROVE  \E m \in DOMAIN es : Without(es, k)[i] = es[m] /\ es[m] \in Event
    <3>1. Without(es, k)[i] = es[IF i < k THEN i ELSE i + 1]
      BY DEF Without
    <3>2. (IF i < k THEN i ELSE i + 1) \in DOMAIN es
      BY <2>1, <2>3, <2>5
    <3> QED
      BY <3>1, <3>2
  <2>6. Without(es, k) \in [1..(Len(es) - 1) -> Event]
    BY <2>5 DEF Without
  <2>7. Without(es, k) \in Seq(Event)
    BY <2>3, <2>6
  <2> QED
    BY <2>2, <2>4, <2>5, <2>7
<1> QED
  BY <1>1, <1>2

\* What the two steps do: only the list of the user's events gets shorter.
LEMMA ClearingSteps ==
    ASSUME IInv, NEW w \in Workers, Drop(w) \/ Delete(w)
    PROVE  /\ job[w].pc \in {"drop", "delete"}
           /\ \E rec : Go(w, rec) /\ Clearing(job[w], rec)
           /\ credit' = credit /\ paid' = paid /\ saved' = saved /\ notes' = notes
           /\ month' = month /\ received' = received /\ bought' = bought /\ count' = count
           /\ events' \in [Users -> Seq(Event)]
           /\ \A v \in Users \ {User(w)} : events'[v] = events[v]
           /\ ShownCredit'
<1> DEFINE j == job[w]
           u == User(w)
<1>1. j.pc \in {"drop", "delete"} /\ j \in Job /\ u \in Users
  BY JobFacts DEF Drop, Delete, At
<1>2. events \in [Users -> Seq(Event)] /\ ShownCredit
  BY DEF IInv, StoreTypes
<1>3. CASE Drop(w)
  <2> DEFINE S == Ids(events[u])
             rec == IF events[u] = <<>> THEN Dropped(j)
                    ELSE [j EXCEPT !.pc = "delete", !.found = S]
  <2>1. Go(w, rec)
    BY <1>3 DEF Drop
  <2>2. S \in SUBSET Nat
    <3>1. \A i \in DOMAIN events[u] : events[u][i] \in Event
      BY <1>1, <1>2
    <3> QED
      BY <3>1 DEF Ids, Event
  <2> HIDE DEF S
  <2>3. Clearing(j, rec)
    BY <1>1, <2>2, ClearingMoves DEF Dropped
  <2> HIDE DEF rec, j
  <2>4. events' = events
    BY <1>3 DEF Drop, stores
  <2>5. ShownCredit'
    BY <1>2, <2>4 DEF ShownCredit
  <2> QED
    BY <1>1, <1>2, <1>3, <2>1, <2>3, <2>4, <2>5 DEF Drop, stores, j
<1>4. CASE Delete(w)
  <2> DEFINE id == Newest(j.found)
             S == j.found \ {id}
             left == [j EXCEPT !.found = S]
             rec == IF left.found = {} THEN Dropped(left) ELSE left
  <2>1. Go(w, rec) /\ events' = [events EXCEPT ![u] = Deleted(@, id)]
    BY <1>4 DEF Delete
  <2>2. S \in SUBSET Nat /\ j.pc = "delete"
    BY <1>1, <1>4 DEF Delete, At, Job, Found
  <2> HIDE DEF S
  <2>3. Clearing(j, rec)
    BY <1>1, <2>2, ClearingMoves
  <2> HIDE DEF rec, j, id, u
  <2>4. /\ Deleted(events[u], id) \in Seq(Event)
        /\ \A i \in DOMAIN Deleted(events[u], id) :
              \E k \in DOMAIN events[u] : Deleted(events[u], id)[i] = events[u][k]
    BY <1>1, <1>2, DeletedList
  <2>5. events'[u] = Deleted(events[u], id) /\ \A v \in Users \ {u} : events'[v] = events[v]
    BY <1>1, <1>2, <2>1
  <2>6. events' \in [Users -> Seq(Event)]
    BY <1>2, <2>1, <2>4
  <2>7. ASSUME NEW v \in Users, NEW i \in DOMAIN events'[v] PROVE events'[v][i].credit \in Nat
    <3>1. CASE v = u
      BY <1>2, <2>4, <2>5, <2>7, <3>1 DEF ShownCredit
    <3>2. CASE v # u
      BY <1>2, <2>5, <2>7, <3>2 DEF ShownCredit
    <3> QED
      BY <3>1, <3>2
  <2>8. ShownCredit'
    BY <2>7 DEF ShownCredit
  <2> QED
    BY <1>1, <1>4, <2>1, <2>3, <2>5, <2>6, <2>8 DEF Delete, j, u
<1> QED
  BY <1>3, <1>4

LEMMA DropStep == ASSUME IInv, NEW w \in Workers, Drop(w) \/ Delete(w) PROVE IInv'
<1> DEFINE j == job[w]
<1>1. PICK rec : Go(w, rec) /\ Clearing(j, rec)
  BY ClearingSteps
<1>2. j.pc \in {"drop", "delete"} /\ j \in Job /\ JobInv(j, bought)
  BY ClearingSteps, JobFacts
<1>3. StoreTypes' /\ ShownCredit'
  BY ClearingSteps DEF IInv, StoreTypes
<1>4. OtherTypes' /\ PaidIsPublished'
  BY ClearingSteps DEF IInv, OtherTypes, PaidIsPublished
<1> HIDE DEF j
<1>5. Writing(j) /\ Writing(rec)
  BY <1>1, <1>2 DEF Writing, Clearing
<1>6. JobInv(rec, bought)
  BY <1>1, <1>2, <1>5 DEF JobInv, Clearing
<1>7. JobsOK'
  BY <1>1, <1>6, ClearingSteps, QuietJobStep
<1> QED
  BY <1>3, <1>4, <1>7 DEF IInv

\* The new event is in front; the sale is on the books.
LEMMA StoreStep == ASSUME IInv, NEW w \in Workers, Store(w) PROVE IInv'
<1> DEFINE j == job[w]
           u == User(w)
           ev == Made(j.ev, count.made + 1)
           pc == AfterStore(j.stage)
           rec == Continue(j, pc)
<1>1. /\ j.pc = "store" /\ j \in Job /\ JobInv(j, bought) /\ u \in Users /\ u = j.user
      /\ j.ev \in Event /\ j.ev.credit \in Nat /\ j.cart \in Sale /\ bought[u] \in Sale
  BY JobFacts DEF Store, At, JobInv, Job, User
<1>0. ev \in Event /\ ev.credit \in Nat
  BY <1>1 DEF Made, Event, IInv, OtherTypes, Count
<1> HIDE DEF ev
<1>2. /\ events' = [events EXCEPT ![u] = <<ev>> \o @]
      /\ events \in [Users -> Seq(Event)] /\ events[u] \in Seq(Event)
  BY <1>1 DEF Store, IInv, StoreTypes, ev
<1>3. <<ev>> \o events[u] \in Seq(Event)
  BY <1>0, <1>1, <1>2
<1>4. events' \in [Users -> Seq(Event)]
  <2> HIDE DEF j, u
  <2> QED
    BY <1>1, <1>2, <1>3
<1>5. StoreTypes'
  <2>1. credit' = credit /\ paid' = paid /\ saved' = saved /\ notes' = notes /\ StoreTypes
    BY DEF Store, IInv
  <2> QED
    BY <1>4, <2>1 DEF StoreTypes
<1>6. ShownCredit'
  <2>1. ASSUME NEW i \in DOMAIN (<<ev>> \o events[u])
        PROVE  (<<ev>> \o events[u])[i].credit \in Nat
    <3>1. \A k \in DOMAIN events[u] : events[u][k].credit \in Nat
      BY <1>1 DEF IInv, ShownCredit
    <3> HIDE DEF j, u
    <3>2. CASE i = 1
      BY <1>0, <1>2, <3>2
    <3>3. CASE i # 1
      <4>1. i - 1 \in DOMAIN events[u] /\ (<<ev>> \o events[u])[i] = events[u][i - 1]
        BY <1>0, <1>2, <2>1, <3>3
      <4> QED
        BY <3>1, <4>1
    <3> QED
      BY <3>2, <3>3
  <2>2. events'[u] = <<ev>> \o events[u] /\ \A v \in Users : v # u => events'[v] = events[v]
    <3> HIDE DEF j, u
    <3> QED
      BY <1>1, <1>2
  <2> HIDE DEF j, u
  <2> QED
    BY <2>1, <2>2 DEF IInv, ShownCredit
<1>7. /\ bought' = [bought EXCEPT ![u] = Sum(@, j.cart)] /\ bought \in [Users -> Sale]
  BY DEF Store, IInv, OtherTypes
<1>8. Sum(bought[u], j.cart) \in Sale /\ Sum(bought[u], j.cart).sats = bought[u].sats + j.cart.sats
  BY <1>1, SumTypes
<1>9. bought[u].sats \in Nat /\ j.cart.sats \in Nat
  BY <1>1 DEF Sale
<1>10. /\ bought' \in [Users -> Sale]
       /\ bought'[u] = Sum(bought[u], j.cart)
       /\ \A v \in Users : v # u => bought'[v] = bought[v]
  <2> HIDE DEF j, u
  <2> QED
    BY <1>1, <1>7, <1>8
<1>11. \A v \in Users : bought[v].sats \in Nat /\ bought'[v].sats \in Nat
  BY <1>7, <1>10 DEF Sale
<1>12. \A v \in Users : bought'[v].sats >= bought[v].sats
  <2> HIDE DEF j, u
  <2>1. bought'[u].sats >= bought[u].sats
    BY <1>8, <1>9, <1>10
  <2> QED
    BY <1>10, <1>11, <2>1
<1>13. OtherTypes'
  <2>1. month' = month /\ received' = received /\ count' = [count EXCEPT !.made = @ + 1]
    BY DEF Store
  <2>2. count' \in Count
    BY <2>1 DEF IInv, OtherTypes, Count
  <2> QED
    BY <1>10, <2>1, <2>2 DEF IInv, OtherTypes
<1>14. PaidIsPublished'
  <2>1. paid' = paid /\ PaidIsPublished
    BY DEF Store, IInv
  <2> QED
    BY <1>11, <1>12, <2>1 DEF PaidIsPublished
<1>15. Go(w, rec)
  BY DEF Store
<1>16. JobInv(rec, bought')
  <2>1. CASE pc = "idle"
    BY <2>1, IdleInv DEF Continue
  <2>2. CASE pc # "idle"
    <3> DEFINE made == [j EXCEPT !.pc = pc, !.cart = Nothing]
    <3>1. rec = made
      BY <2>2 DEF Continue
    <3>2. /\ pc \in {"paid", "notify"} /\ pc \in PCs /\ j.stage # "usage"
          /\ pc = "paid" => j.stage \in {"buy", "extra", "credit"}
      BY <2>2 DEF AfterStore, PCs
    <3> HIDE DEF pc
    <3>3. made \in Job
      BY <1>1, <3>2, NothingType DEF Job
    <3>4. /\ made.pc = pc /\ made.stage = j.stage /\ made.user = j.user /\ made.tx = j.tx
          /\ made.rem = j.rem /\ made.seen = j.seen /\ made.ev = j.ev
      BY <1>1 DEF Job
    <3>5. Writing(j) /\ ~Writing(made)
      BY <1>1, <3>2, <3>4 DEF Writing
    <3>6. pc = "paid" => Sold(bought', j.user)
      <4> HIDE DEF j, u
      <4>1. CASE j.stage = "extra"
        <5>1. Sold(bought, u)
          BY <1>1, <3>5, <4>1 DEF JobInv
        <5> QED
          BY <1>1, <1>11, <1>12, <5>1 DEF Sold
      <4>2. CASE j.stage \in {"buy", "credit"}
        <5>1. j.cart.sats > 0
          BY <1>1, <3>5, <4>2 DEF JobInv
        <5> QED
          BY <1>1, <1>8, <1>9, <1>10, <5>1 DEF Sold
      <4> QED
        BY <3>2, <4>1, <4>2
    <3> HIDE DEF j, made
    <3>7. JobInv(made, bought')
      BY <1>1, <3>2, <3>3, <3>4, <3>5, <3>6 DEF JobInv
    <3> QED
      BY <3>1, <3>7
  <2> QED
    BY <2>1, <2>2
<1>17. JobsOK'
  BY <1>10, <1>12, <1>15, <1>16, JobStep
<1> QED
  BY <1>5, <1>6, <1>13, <1>14, <1>17 DEF IInv

-----------------------------------------------------------------------------
(* The clock and the crash.                                                 *)

LEMMA TickStep == ASSUME IInv, Tick PROVE IInv'
BY DEF Tick, IInv, StoreTypes, OtherTypes, ShownCredit, JobsOK, PaidIsPublished, stores

LEMMA RestartStep == ASSUME IInv, Restart PROVE IInv'
<1>1. count' \in Count
  <2>1. count \in Count /\ count' = [count EXCEPT !.restart = @ + 1]
    BY DEF Restart, IInv, OtherTypes
  <2> QED
    BY <2>1 DEF Count
<1>2. UNCHANGED <<stores, month, received, bought>>
  BY DEF Restart
<1>3. StoreTypes' /\ OtherTypes' /\ ShownCredit' /\ PaidIsPublished'
  BY <1>1, <1>2, QuietStores DEF IInv, OtherTypes
<1>4. job' = [w \in Workers |-> Idle] /\ Idle \in Job /\ JobInv(Idle, bought')
  BY IdleInv DEF Restart, JobInv
<1>5. JobsOK'
  BY <1>4 DEF JobsOK
<1> QED
  BY <1>3, <1>5 DEF IInv

LEMMA InitInv == Init => IInv
<1> SUFFICES ASSUME Init PROVE IInv
  OBVIOUS
<1>1. month = 0 /\ FirstEvent \in Event /\ FirstEvent.credit \in Nat
  BY FirstEventType DEF Init
<1>2. Nothing \in Sale
  BY NothingType
<1>3. StoreTypes
  <2>1. events = [u \in Users |-> <<FirstEvent>>] /\ <<FirstEvent>> \in Seq(Event)
    BY <1>1 DEF Init
  <2>2. notes = {}
    BY DEF Init
  <2> QED
    BY <2>1, <2>2 DEF Init, StoreTypes
<1>4. OtherTypes
  BY <1>2 DEF Init, OtherTypes, Count
<1>5. ShownCredit
  BY <1>1 DEF Init, ShownCredit
<1>6. JobsOK
  <2>1. job = [w \in Workers |-> Idle] /\ Idle \in Job /\ JobInv(Idle, bought)
    BY IdleInv DEF Init, JobInv
  <2> QED
    BY <2>1 DEF JobsOK
<1>7. PaidIsPublished
  BY DEF Init, PaidIsPublished
<1> QED
  BY <1>3, <1>4, <1>5, <1>6, <1>7 DEF IInv

LEMMA NextInv == IInv /\ [Next]_vars => IInv'
<1> SUFFICES ASSUME IInv, [Next]_vars PROVE IInv'
  OBVIOUS
<1>1. ASSUME NEW w \in Workers, NEW tx \in Txs, NEW exact \in BOOLEAN,
             Deliver(w, tx, exact)
      PROVE  IInv'
  BY <1>1, DeliverStep
<1>2. ASSUME NEW w \in Workers, Step(w) PROVE IInv'
  BY <1>2, SaveStep, TotalStep, RejectAmountStep, BankStep, RefreshStep, ResetStep, ReadStep,
     DropStep, SignStep, StoreStep, RecordPaidStep, CascadeStep, LeftoverStep, ApplyStep,
     ChargeStep, FinalStep, NotifyStep DEF Step
<1>3. ASSUME NEW w \in Workers, NEW u \in Users, Upload(w, u) \/ Login(w, u) \/ ReadBack(w, u)
      PROVE  IInv'
  BY <1>3, UploadStep, LoginStep, ReadBackStep
<1>4. CASE Tick
  BY <1>4, TickStep
<1>5. CASE Restart
  BY <1>5, RestartStep
<1>6. CASE UNCHANGED vars
  BY <1>6 DEF vars, IInv, StoreTypes, OtherTypes, ShownCredit, JobsOK, PaidIsPublished
<1> QED
  BY <1>1, <1>2, <1>3, <1>4, <1>5, <1>6 DEF Next

\* The inductive invariant: types, what each goroutine's record promises, and
\* the sale behind every paid record.
THEOREM Invariance == Spec => []IInv
BY InitInv, NextInv, PTL DEF Spec

\* Every store and every goroutine's record keeps its type.
THEOREM TypeCorrect == Spec => []TypeOK
<1>1. IInv => TypeOK
  <2> SUFFICES ASSUME IInv PROVE TypeOK
    OBVIOUS
  <2>1. credit \in [Users -> Int]
    BY DEF IInv, StoreTypes
  <2> QED
    BY <2>1 DEF IInv, StoreTypes, OtherTypes, JobsOK, TypeOK
<1> QED
  BY <1>1, Invariance, PTL

\* Credit stays at or above zero although goroutines charge what they read
\* before others wrote (credit.go, payment.go).
THEOREM CreditSafe == Spec => []CreditNeverNegative
<1>1. IInv => CreditNeverNegative
  <2> SUFFICES ASSUME IInv, NEW u \in Users PROVE credit[u] >= 0
    BY DEF CreditNeverNegative
  <2>1. credit[u] \in Nat
    BY DEF IInv, StoreTypes
  <2> QED
    BY <2>1
<1> QED
  BY <1>1, Invariance, PTL

\* A paid-subscriber record is written only after storage was published for a
\* price (updatePaidSubscriberRecord follows createOrUpdateNIP88Event), also
\* when the process crashes in between.
THEOREM PaidAfterPublished == Spec => []PaidIsPublished
<1>1. IInv => PaidIsPublished
  BY DEF IInv
<1> QED
  BY <1>1, Invariance, PTL

-----------------------------------------------------------------------------
(* The event survives its rewrites.                                         *)

\* A step that leaves the events alone and is not taken by a goroutine about
\* to store one.
LEMMA KeepsRestoring ==
    ASSUME IInv, EventNeverLost, NEW w \in Workers, NEW rec, Go(w, rec), events' = events,
           job[w].pc \notin {"delete", "sign", "store"}
    PROVE  EventNeverLost'
<1> SUFFICES ASSUME NEW u \in Users, events[u] = <<>>
             PROVE  Restoring(u)'
  BY DEF EventNeverLost
<1>1. PICK v \in Workers : User(v) = u /\ job[v].pc \in {"delete", "sign", "store"}
  BY DEF EventNeverLost, Restoring
<1>2. job'[v] = job[v]
  BY <1>1 DEF Go, IInv, JobsOK
<1> QED
  BY <1>1, <1>2 DEF Restoring, User

LEMMA DropRestores ==
    ASSUME IInv, EventNeverLost, NEW w \in Workers, Drop(w) \/ Delete(w)
    PROVE  EventNeverLost'
<1> SUFFICES ASSUME NEW u \in Users, events'[u] = <<>>
             PROVE  Restoring(u)'
  BY DEF EventNeverLost
<1>1. PICK rec : Go(w, rec) /\ Clearing(job[w], rec)
  BY ClearingSteps
<1>2. job'[w] = rec /\ \A v \in Workers \ {w} : job'[v] = job[v]
  BY <1>1 DEF Go, IInv, JobsOK
<1>3. job'[w].pc \in {"delete", "sign"} /\ job'[w].user = job[w].user
  BY <1>1, <1>2 DEF Clearing
<1>4. CASE u = User(w)
  BY <1>3, <1>4 DEF Restoring, User
<1>5. CASE u # User(w)
  <2>1. events[u] = <<>>
    BY <1>5, ClearingSteps
  <2>2. PICK v \in Workers : User(v) = u /\ job[v].pc \in {"delete", "sign", "store"}
    BY <2>1 DEF EventNeverLost, Restoring
  <2>3. v # w
    BY <1>5, <2>2
  <2> QED
    BY <1>2, <2>2, <2>3 DEF Restoring, User
<1> QED
  BY <1>4, <1>5

LEMMA SignRestores ==
    ASSUME IInv, EventNeverLost, NEW w \in Workers, Sign(w)
    PROVE  EventNeverLost'
<1> DEFINE ev == [job[w].ev EXCEPT !.credit = credit[User(w)]]
           rec == [job[w] EXCEPT !.pc = "store", !.ev = ev]
<1>1. job[w].pc = "sign" /\ job[w] \in Job
  BY JobFacts DEF Sign, At
<1>2. Go(w, rec) /\ job \in [Workers -> Job] /\ events' = events
  BY <1>1 DEF Sign, Job, Event, IInv, JobsOK, stores
<1>3. rec.pc = "store" /\ rec.user = job[w].user
  BY <1>1 DEF Job
<1> HIDE DEF rec
<1>4. /\ job'[w] = rec
      /\ \A v \in Workers : v # w => job'[v] = job[v]
  BY <1>2 DEF Go
<1> SUFFICES ASSUME NEW u \in Users, events[u] = <<>>
             PROVE  Restoring(u)'
  BY <1>2 DEF EventNeverLost
<1>5. PICK v \in Workers : User(v) = u /\ job[v].pc \in {"delete", "sign", "store"}
  BY DEF EventNeverLost, Restoring
<1>6. job'[v].pc \in {"delete", "sign", "store"} /\ job'[v].user = u
  BY <1>3, <1>4, <1>5 DEF User
<1> QED
  BY <1>6 DEF Restoring, User

LEMMA StoreRestores ==
    ASSUME IInv, EventNeverLost, NEW w \in Workers, Store(w)
    PROVE  EventNeverLost'
<1> DEFINE rec == Continue(job[w], AfterStore(job[w].stage))
           ev == Made(job[w].ev, count.made + 1)
<1>1. job[w].pc = "store" /\ job[w].ev \in Event /\ User(w) \in Users /\ events[User(w)] \in Seq(Event)
  BY JobFacts DEF Store, At, Job
<1>2. events' = [events EXCEPT ![User(w)] = <<ev>> \o @] /\ events \in [Users -> Seq(Event)]
  BY DEF Store, IInv, StoreTypes
<1>3. Go(w, rec) /\ job \in [Workers -> Job]
  BY DEF Store, IInv, JobsOK
<1> SUFFICES ASSUME NEW u \in Users, events'[u] = <<>>
             PROVE  Restoring(u)'
  BY DEF EventNeverLost
<1>4. u # User(w)
  <2>1. events'[User(w)] = <<ev>> \o events[User(w)]
    BY <1>1, <1>2
  <2>2. <<ev>> \o events[User(w)] # <<>>
    BY <1>1
  <2> QED
    BY <2>1, <2>2
<1>5. events[u] = <<>>
  BY <1>2, <1>4
<1>6. PICK v \in Workers : User(v) = u /\ job[v].pc \in {"delete", "sign", "store"}
  BY <1>5 DEF EventNeverLost, Restoring
<1>7. v # w
  BY <1>4, <1>6
<1>8. job'[v] = job[v]
  BY <1>3, <1>7 DEF Go
<1> QED
  BY <1>6, <1>8 DEF Restoring, User

LEMMA NextRestores ==
    ASSUME MaxRestarts = 0, IInv, EventNeverLost, [Next]_vars
    PROVE  EventNeverLost'
<1>1. ASSUME NEW w \in Workers, NEW tx \in Txs, NEW exact \in BOOLEAN,
             Deliver(w, tx, exact)
      PROVE  EventNeverLost'
  <2>1. events' = events /\ job[w].pc = "idle"
    BY <1>1 DEF Deliver, At, stores
  <2>2. \E rec : Go(w, rec)
    BY <1>1 DEF Deliver
  <2> QED
    BY <2>1, <2>2, KeepsRestoring
<1>2. ASSUME NEW w \in Workers, Step(w) PROVE EventNeverLost'
  <2>1. CASE Drop(w) \/ Delete(w) \/ Sign(w) \/ Store(w)
    BY <2>1, DropRestores, SignRestores, StoreRestores
  <2>2. CASE \/ Save(w) \/ RecordPaid(w) \/ Notify(w)
             \/ Bank(w) \/ Reset(w) \/ Leftover(w) \/ Charge(w)
    <3>1. events' = events /\ job[w].pc \notin {"delete", "sign", "store"}
      BY <2>2 DEF Save, RecordPaid, Notify, Bank, Reset, Leftover, Charge, At
    <3>2. \E rec : Go(w, rec)
      BY <2>2 DEF Save, RecordPaid, Notify, Bank, Reset, Leftover, Charge
    <3> QED
      BY <3>1, <3>2, KeepsRestoring
  <2>3. CASE \/ Total(w) \/ RejectAmount(w) \/ Refresh(w) \/ Read(w)
             \/ Cascade(w) \/ Apply(w) \/ Final(w)
    <3>1. events' = events /\ job[w].pc \notin {"delete", "sign", "store"}
      BY <2>3 DEF Total, RejectAmount, Refresh, Read, Cascade, Apply, Final, At, stores
    <3>2. \E rec : Go(w, rec)
      BY <2>3 DEF Total, RejectAmount, Refresh, Read, Cascade, Apply, Final
    <3> QED
      BY <3>1, <3>2, KeepsRestoring
  <2> QED
    BY <1>2, <2>1, <2>2, <2>3 DEF Step
<1>3. ASSUME NEW w \in Workers, NEW u \in Users, Upload(w, u) \/ Login(w, u) \/ ReadBack(w, u)
      PROVE  EventNeverLost'
  <2>1. events' = events /\ job[w].pc = "idle"
    BY <1>3 DEF Upload, Login, ReadBack, At, stores
  <2>2. \E rec : Go(w, rec)
    BY <1>3 DEF Upload, Login, ReadBack
  <2> QED
    BY <2>1, <2>2, KeepsRestoring
<1>4. CASE Tick
  BY <1>4 DEF Tick, stores, EventNeverLost, Restoring, User
<1>5. CASE Restart
  <2>1. count.restart \in Nat /\ count.restart < 0
    BY <1>5 DEF Restart, IInv, OtherTypes, Count
  <2> QED
    BY <2>1
<1>6. CASE UNCHANGED vars
  BY <1>6 DEF vars, EventNeverLost, Restoring, User
<1> QED
  BY <1>1, <1>2, <1>3, <1>4, <1>5, <1>6 DEF Next

\* Without a crash a user is without a kind 11888 event only while a goroutine
\* that is about to store the next one runs (createOrUpdateNIP88Event deletes
\* first and stores after), for any number of payments, uploads, logins and
\* read-backs at once.
THEOREM EventSurvives == ASSUME MaxRestarts = 0 PROVE Spec => []EventNeverLost
<1>1. Init => EventNeverLost
  <2> SUFFICES ASSUME Init, NEW u \in Users PROVE events[u] # <<>>
    BY DEF EventNeverLost
  <2>1. events[u] = <<FirstEvent>>
    BY DEF Init
  <2> QED
    BY <2>1
<1>2. IInv /\ EventNeverLost /\ [Next]_vars => EventNeverLost'
  BY NextRestores
<1> QED
  BY <1>1, <1>2, Invariance, PTL DEF Spec

-----------------------------------------------------------------------------
(* The books of a subscription, when no two goroutines handle one user.     *)

\* A user's payments, uploads, logins and read-backs come one after the other;
\* different users' may interleave.  Nothing in the code orders them.
OnePerUser ==
    \A v, w \in Workers : v # w /\ ~At(v, "idle") /\ ~At(w, "idle") => User(v) # User(w)

\* NewSubscriptionManager skips a tier that is worth no storage (manager.go:66).
ValidTiers == MaxLimitBytes > 0 /\ \A t \in Tiers : Bytes[t] > 0 \/ t \in Unlimited

\* A tier is worth the bytes it is configured with: an unlimited one, bought at
\* exactly its price, adds only its monthly limit (payment.go:199).
Measured == \A t \in Unlimited : Bytes[t] >= MaxLimitBytes

Buying(j) == j.stage \in {"buy", "extra"}
Rewriting(j) == j.stage \in {"usage", "refresh", "final"}

\* What a job has in its cart.
Carries(j) ==
    /\ Writing(j) => j.stage # "none"
    /\ j.pc = "paid" => j.stage \in {"buy", "extra", "credit"}
    /\ j.pc \in {"save", "total", "reset", "read"} => ~j.high
    /\ ~Writing(j) /\ j.pc # "cascade" => j.cart = Nothing
    /\ Writing(j) /\ Rewriting(j) => j.cart = Nothing
    /\ Writing(j) /\ j.stage = "credit" => j.cart.sats = Price[j.ev.tier]
    /\ j.pc = "cascade" => /\ j.cart.sats > 0 => j.cart.bytes > 0
                           /\ j.ev.total = j.base + j.cart.bytes
    /\ j.stage = "buy" /\ j.high /\ (Writing(j) \/ j.pc = "paid") => j.base = j.ev.total

\* Credit c, sales b and the satoshis x that are in neither add up to what was
\* received; every one of k crashes may have cost the highest price.
Allowance(k) == k * Price[HighestTier]
Balance(x, c, r, b, k) ==
    /\ c + b.sats + x <= r + Allowance(k)
    /\ k = 0 => c + b.sats + x = r

\* What is in neither, at each step of a payment.
Money(j, c, r, b, k) ==
    /\ j.pc \in {"bank", "reset"} => j.seen = c /\ Balance(j.rem, c, r, b, k)
    /\ j.pc = "bank" => Affordable(c + j.rem) = {}
    /\ j.pc = "read" => c = 0 /\ Balance(j.rem + j.seen, c, r, b, k)
    /\ j.pc = "cascade" \/ (Writing(j) /\ Buying(j)) =>
           c = 0 /\ Balance(j.cart.sats + j.rem, c, r, b, k)
    /\ j.pc = "leftover" \/ (j.pc = "paid" /\ Buying(j)) => c = 0 /\ Balance(j.rem, c, r, b, k)
    /\ Writing(j) /\ j.stage = "credit" => j.seen = c /\ Balance(0, c, r, b, k)
    /\ j.pc = "charge" \/ (j.pc = "paid" /\ j.stage = "credit") =>
           j.seen = c /\ Balance(0 - Price[j.ev.tier], c, r, b, k)
    /\ j.pc = "apply" => Balance(0, c, r, b, k)
    /\ j.pc \in {"idle", "save", "total", "refresh", "final", "notify"}
       \/ (Writing(j) /\ Rewriting(j)) =>
           Balance(0, c, r, b, k) /\ (k = 0 => Affordable(c) = {})

\* What the event, or the one about to be stored, promises, and the record p.
Recorded(ev, p) == Measured /\ p # NoPaid => ev.total = p.bytes /\ ev.exp >= p.exp
Promised(total, bytes) == Measured => total >= Bytes[FreeTier] + bytes
Shown(ev, es) == Head(es).total = ev.total /\ Head(es).exp = ev.exp

Storage(j, es, p, b) ==
    /\ Writing(j) => Promised(j.ev.total, b.bytes + j.cart.bytes)
    /\ Writing(j) /\ Rewriting(j) => Recorded(j.ev, p)
    /\ ~Writing(j) => es # <<>> /\ Promised(Head(es).total, b.bytes)
    /\ ~Writing(j) /\ j.pc # "paid" => Recorded(Head(es), p)
    /\ j.pc \in {"paid", "leftover", "apply", "charge", "final"} => Shown(j.ev, es)
    /\ j.pc = "cascade" => Head(es).total = j.base /\ Head(es).exp = j.ev.exp

Books(j, c, es, p, r, b, k) ==
    Carries(j) /\ Money(j, c, r, b, k) /\ (k = 0 => Storage(j, es, p, b))

\* The books of every user, by the job that is at work for the user or, if there
\* is none, at rest.
BooksOf(u, j) == Books(j, credit[u], events[u], paid[u], received[u], bought[u], count.restart)
Busy(w, u) == job[w].pc # "idle" /\ job[w].user = u
Ledger ==
    \A u \in Users :
        /\ \A w \in Workers : Busy(w, u) => BooksOf(u, job[w])
        /\ (\A w \in Workers : ~Busy(w, u)) => BooksOf(u, Idle)

Typed(j, c, es, p, r, b, k) ==
    /\ j \in Job /\ j.rem \in Nat /\ j.seen \in Nat
    /\ c \in Nat /\ es \in Seq(Event) /\ r \in Nat /\ b \in Sale /\ k \in Nat
    /\ p = NoPaid \/ p \in [tier : Tiers, exp : Nat, bytes : Nat]

LEMMA AllowanceType == ASSUME NEW k \in Nat PROVE Allowance(k) \in Nat
BY HighestType, Z3 DEF Allowance

\* The types of everything that is added up.
LEMMA Amounts ==
    ASSUME NEW j, NEW c, NEW es, NEW p, NEW r, NEW b, NEW k, Typed(j, c, es, p, r, b, k)
    PROVE  /\ j \in Job /\ j.rem \in Nat /\ j.seen \in Nat /\ j.base \in Nat
           /\ j.ev \in Event /\ j.ev.tier \in Tiers /\ j.ev.total \in Nat /\ j.ev.exp \in Nat
           /\ j.cart \in Sale /\ j.cart.sats \in Nat /\ j.cart.bytes \in Nat
           /\ b.sats \in Nat /\ b.bytes \in Nat
           /\ c \in Nat /\ r \in Nat /\ Allowance(k) \in Nat /\ Price[j.ev.tier] \in Nat
           /\ Bytes[FreeTier] \in Nat
           /\ es # <<>> => Head(es) \in Event /\ Head(es).total \in Nat /\ Head(es).exp \in Nat
<1>1. j \in Job /\ j.base \in Nat /\ j.ev \in Event /\ j.cart \in Sale /\ b \in Sale
  BY DEF Typed, Job, Size
<1>2. /\ j.ev.tier \in Tiers /\ j.ev.total \in Nat /\ j.ev.exp \in Nat
      /\ j.cart.sats \in Nat /\ j.cart.bytes \in Nat /\ b.sats \in Nat /\ b.bytes \in Nat
  BY <1>1 DEF Event, Sale
<1>3. es # <<>> => Head(es) \in Event
  BY DEF Typed
<1>4. es # <<>> => Head(es).total \in Nat /\ Head(es).exp \in Nat
  BY <1>3 DEF Event
<1>5. Allowance(k) \in Nat
  BY AllowanceType DEF Typed
<1> QED  BY <1>1, <1>2, <1>3, <1>4, <1>5, TierTypes DEF Typed

LEMMA NothingIs == Nothing.sats = 0 /\ Nothing.bytes = 0
BY DEF Nothing

LEMMA NothingAffordable == Affordable(0) = {}
BY TierTypes DEF Affordable

\* A job moves on and carries what it carried.
LEMMA Onward ==
    ASSUME NEW j \in Job, NEW pc \in PCs
    PROVE  LET rec == [j EXCEPT !.pc = pc] IN
           /\ rec.pc = pc /\ rec.stage = j.stage /\ rec.rem = j.rem /\ rec.seen = j.seen
           /\ rec.high = j.high /\ rec.base = j.base /\ rec.ev = j.ev /\ rec.cart = j.cart
BY DEF Job

-----------------------------------------------------------------------------
(* Every step keeps the books.                                              *)

LEMMA SaveBooks ==
    ASSUME NEW j, NEW c, NEW es, NEW p, NEW r, NEW b, NEW k, Typed(j, c, es, p, r, b, k),
           Books(j, c, es, p, r, b, k), j.pc = "save"
    PROVE  Books([j EXCEPT !.pc = "total"], c, es, p, r, b, k)
<1> DEFINE rec == [j EXCEPT !.pc = "total"]
<1>1. /\ rec.pc = "total" /\ rec.stage = j.stage /\ rec.ev = j.ev /\ rec.cart = j.cart
      /\ rec.base = j.base /\ rec.high = j.high
  BY Onward DEF Typed, PCs
<1> HIDE DEF rec
<1>2. Carries(rec)  BY <1>1 DEF Books, Carries, Writing
<1>3. Money(rec, c, r, b, k)  BY <1>1 DEF Books, Money, Writing
<1>4. k = 0 => Storage(rec, es, p, b)  BY <1>1 DEF Books, Storage, Writing
<1> QED  BY <1>2, <1>3, <1>4 DEF Books, rec

\* The payment is received and in no book yet.
LEMMA TotalBooks ==
    ASSUME NEW j, NEW c, NEW es, NEW p, NEW r, NEW b, NEW k, Typed(j, c, es, p, r, b, k),
           Books(j, c, es, p, r, b, k), j.pc = "total", NEW sats \in Nat
    PROVE  Books([j EXCEPT !.pc = Decision(sats + c, c), !.seen = c, !.rem = sats],
                 c, es, p, r + sats, b, k)
<1> DEFINE pc == Decision(sats + c, c)
           rec == [j EXCEPT !.pc = pc, !.seen = c, !.rem = sats]
<1>1. /\ pc \in {"bank", "reset", "read"}
      /\ pc = "bank" => Affordable(sats + c) = {}
      /\ pc = "read" => ~(c > 0)
  BY DEF Decision
<1> HIDE DEF pc
<1>2. /\ rec.pc = pc /\ rec.stage = j.stage /\ rec.ev = j.ev /\ rec.cart = j.cart
      /\ rec.base = j.base /\ rec.high = j.high /\ rec.seen = c /\ rec.rem = sats
  BY DEF Typed, Job
<1> HIDE DEF rec
<1>3. Carries(rec)  BY <1>1, <1>2 DEF Books, Carries, Writing
<1>4. Money(rec, c, r + sats, b, k)
  <2>1. Balance(0, c, r, b, k)
    BY DEF Books, Money
  <2>2. Balance(sats, c, r + sats, b, k)
    BY <2>1, Amounts DEF Balance
  <2>3. pc = "read" => c = 0 /\ sats + c = sats
    BY <1>1, Amounts
  <2>4. sats + c = c + sats
    BY Amounts
  <2> QED  BY <1>1, <1>2, <2>2, <2>3, <2>4 DEF Money, Writing
<1>5. k = 0 => Storage(rec, es, p, b)  BY <1>1, <1>2 DEF Books, Storage, Writing
<1> QED  BY <1>3, <1>4, <1>5 DEF Books, rec, pc

LEMMA IdleIs ==
    /\ Idle.pc = "idle" /\ Idle.stage = "none" /\ Idle.cart = Nothing /\ ~Writing(Idle)
BY DEF Idle, Writing

\* A job that ends, or one that finds no event to add storage to.
LEMMA EndBooks ==
    ASSUME NEW j, NEW c, NEW es, NEW p, NEW r, NEW b, NEW k, Typed(j, c, es, p, r, b, k),
           Books(j, c, es, p, r, b, k),
           j.pc \in {"total", "notify"} \/ (j.pc = "read" /\ es = <<>>)
    PROVE  Books(Idle, c, es, p, r, b, k)
<1>1. Carries(Idle)  BY IdleIs DEF Carries
<1>2. Balance(0, c, r, b, k) /\ (k = 0 => Affordable(c) = {})
  <2>1. CASE j.pc \in {"total", "notify"}  BY <2>1 DEF Books, Money
  <2>2. CASE j.pc = "read" /\ es = <<>>
    <3>1. k # 0  BY <2>2 DEF Books, Storage, Writing
    <3>2. Balance(j.rem + j.seen, c, r, b, k)  BY <2>2 DEF Books, Money
    <3> QED  BY <3>1, <3>2, Amounts DEF Balance
  <2> QED  BY <2>1, <2>2
<1>3. Money(Idle, c, r, b, k)  BY <1>2, IdleIs DEF Money
<1>4. k = 0 => Storage(Idle, es, p, b)
  BY IdleIs DEF Books, Storage, Writing
<1> QED  BY <1>1, <1>3, <1>4 DEF Books

LEMMA BankBooks ==
    ASSUME NEW j, NEW c, NEW es, NEW p, NEW r, NEW b, NEW k, Typed(j, c, es, p, r, b, k),
           Books(j, c, es, p, r, b, k), j.pc = "bank"
    PROVE  Books([j EXCEPT !.pc = "refresh"], j.seen + j.rem, es, p, r, b, k)
<1> DEFINE rec == [j EXCEPT !.pc = "refresh"]
<1>1. /\ rec.pc = "refresh" /\ rec.stage = j.stage /\ rec.ev = j.ev /\ rec.cart = j.cart
      /\ rec.base = j.base /\ rec.high = j.high
  BY Onward DEF Typed, PCs
<1> HIDE DEF rec
<1>2. Carries(rec)  BY <1>1 DEF Books, Carries, Writing
<1>3. Money(rec, j.seen + j.rem, r, b, k)
  <2>1. j.seen = c /\ Balance(j.rem, c, r, b, k) /\ Affordable(c + j.rem) = {}
    BY DEF Books, Money
  <2>2. Balance(0, c + j.rem, r, b, k)
    BY <2>1, Amounts DEF Balance
  <2> QED  BY <1>1, <2>1, <2>2 DEF Money, Writing
<1>4. k = 0 => Storage(rec, es, p, b)  BY <1>1 DEF Books, Storage, Writing
<1> QED  BY <1>2, <1>3, <1>4 DEF Books, rec

LEMMA RefreshBooks ==
    ASSUME NEW j, NEW c, NEW es, NEW p, NEW r, NEW b, NEW k, Typed(j, c, es, p, r, b, k),
           Books(j, c, es, p, r, b, k), j.pc = "refresh"
    PROVE  /\ es = <<>> => Books([j EXCEPT !.pc = "notify"], c, es, p, r, b, k)
           /\ es # <<>> => Books([j EXCEPT !.pc = "drop", !.stage = "refresh", !.ev = Head(es)],
                                 c, es, p, r, b, k)
<1>1. ASSUME es = <<>> PROVE Books([j EXCEPT !.pc = "notify"], c, es, p, r, b, k)
  <2> DEFINE rec == [j EXCEPT !.pc = "notify"]
  <2>1. /\ rec.pc = "notify" /\ rec.stage = j.stage /\ rec.ev = j.ev /\ rec.cart = j.cart
        /\ rec.base = j.base /\ rec.high = j.high
    BY Onward DEF Typed, PCs
  <2> HIDE DEF rec
  <2>2. Carries(rec)  BY <2>1 DEF Books, Carries, Writing
  <2>3. Money(rec, c, r, b, k)  BY <2>1 DEF Books, Money, Writing
  <2>4. k = 0 => Storage(rec, es, p, b)  BY <2>1 DEF Books, Storage, Writing
  <2> QED  BY <2>2, <2>3, <2>4 DEF Books, rec
<1>2. ASSUME es # <<>>
      PROVE  Books([j EXCEPT !.pc = "drop", !.stage = "refresh", !.ev = Head(es)],
                   c, es, p, r, b, k)
  <2> DEFINE rec == [j EXCEPT !.pc = "drop", !.stage = "refresh", !.ev = Head(es)]
  <2>1. /\ rec.pc = "drop" /\ rec.stage = "refresh" /\ rec.ev = Head(es) /\ rec.cart = j.cart
    BY DEF Typed, Job
  <2>2. Writing(rec) /\ Rewriting(rec) /\ ~Buying(rec)
    BY <2>1 DEF Writing, Rewriting, Buying
  <2> HIDE DEF rec
  <2>3. j.cart = Nothing
    BY DEF Books, Carries, Writing
  <2>4. Carries(rec)  BY <2>1, <2>2, <2>3 DEF Carries
  <2>5. Money(rec, c, r, b, k)  BY <2>1, <2>2 DEF Books, Money
  <2>6. k = 0 => Storage(rec, es, p, b)
    <3>1. b.bytes + Nothing.bytes = b.bytes
      BY NothingIs, Amounts
    <3> QED  BY <2>1, <2>2, <2>3, <3>1 DEF Books, Storage, Writing
  <2> QED  BY <2>4, <2>5, <2>6 DEF Books, rec
<1> QED  BY <1>1, <1>2

LEMMA ResetBooks ==
    ASSUME NEW j, NEW c, NEW es, NEW p, NEW r, NEW b, NEW k, Typed(j, c, es, p, r, b, k),
           Books(j, c, es, p, r, b, k), j.pc = "reset"
    PROVE  Books([j EXCEPT !.pc = "read"], 0, es, p, r, b, k)
<1> DEFINE rec == [j EXCEPT !.pc = "read"]
<1>1. /\ rec.pc = "read" /\ rec.stage = j.stage /\ rec.ev = j.ev /\ rec.cart = j.cart
      /\ rec.base = j.base /\ rec.high = j.high /\ rec.rem = j.rem /\ rec.seen = j.seen
  BY Onward DEF Typed, PCs
<1> HIDE DEF rec
<1>2. Carries(rec)  BY <1>1 DEF Books, Carries, Writing
<1>3. Money(rec, 0, r, b, k)
  <2>1. j.seen = c /\ Balance(j.rem, c, r, b, k)
    BY DEF Books, Money
  <2>2. Balance(j.rem + j.seen, 0, r, b, k)
    BY <2>1, Amounts DEF Balance
  <2> QED  BY <1>1, <2>2 DEF Money, Writing
<1>4. k = 0 => Storage(rec, es, p, b)  BY <1>1 DEF Books, Storage, Writing
<1> QED  BY <1>2, <1>3, <1>4 DEF Books, rec

\* Periods of the highest tier and the rest are what was paid.
LEMMA BuyHighBooks ==
    ASSUME NEW j, NEW c, NEW es, NEW p, NEW r, NEW b, NEW k, Typed(j, c, es, p, r, b, k),
           Books(j, c, es, p, r, b, k), j.pc = "read", es # <<>>, AboveHighest(j.rem + j.seen)
    PROVE  Books(BuyHigh(j, Head(es), j.rem + j.seen), c, es, p, r, b, k)
<1> DEFINE a == j.rem + j.seen
           e == Head(es)
           n == a \div Price[HighestTier]
           rem == a % Price[HighestTier]
           more == n * FullBytes(HighestTier)
           ev == Prolonged(e, HighestTier, n)
           cart == With(Nothing, HighestTier, n)
           rec == [j EXCEPT !.pc = "drop", !.stage = "buy", !.high = TRUE,
                            !.tier = HighestTier, !.rem = rem, !.pool = LowerTiers,
                            !.ev = ev, !.base = e.total + more, !.cart = cart]
<1>1. a \in Nat /\ n \in Nat /\ rem \in Nat
  BY Amounts, Periods
<1>2. a = n * Price[HighestTier] + rem
  <2>1. a \in Nat /\ Price[HighestTier] \in Nat /\ Price[HighestTier] > 0
    BY <1>1, HighestType
  <2> HIDE DEF a
  <2> QED  BY <2>1, Z3
<1>3. more \in Nat /\ n * Price[HighestTier] \in Nat
  <2>1. FullBytes(HighestTier) \in Nat /\ Price[HighestTier] \in Nat
    BY TierTypes, HighestType
  <2> HIDE DEF n
  <2> QED  BY <1>1, <2>1, Z3
<1>4. ev.total = e.total + more /\ e \in Event
  BY Amounts DEF Prolonged, Event
<1>5. cart.sats = n * Price[HighestTier] /\ cart.bytes = more
  BY <1>3 DEF With, Nothing
<1>6. BuyHigh(j, e, a) = rec
  BY DEF BuyHigh
<1>7. /\ rec.pc = "drop" /\ rec.stage = "buy" /\ rec.high /\ rec.rem = rem /\ rec.ev = ev
      /\ rec.base = e.total + more /\ rec.cart = cart
  <2> HIDE DEF n, rem, more, ev, cart, a, e
  <2> QED  BY DEF Typed, Job
<1>8. e.total \in Nat
  BY Amounts
<1> HIDE DEF rec, cart, ev, more, rem, n, e
<1>9. Carries(rec)
  BY <1>4, <1>7 DEF Carries, Writing, Rewriting
<1>10. Money(rec, c, r, b, k)
  <2>1. c = 0 /\ Balance(a, c, r, b, k)
    BY DEF Books, Money
  <2>2. cart.sats + rem = a
    BY <1>2, <1>5
  <2> QED  BY <1>7, <2>1, <2>2 DEF Money, Writing, Buying, Rewriting
<1>11. k = 0 => Storage(rec, es, p, b)
  <2>1. k = 0 => Promised(e.total, b.bytes)
    BY DEF Books, Storage, Writing, e
  <2>2. k = 0 => Promised(ev.total, b.bytes + cart.bytes)
    BY <1>3, <1>4, <1>5, <1>8, <2>1, Amounts DEF Promised
  <2> QED  BY <1>7, <2>2 DEF Storage, Writing, Rewriting
<1> QED  BY <1>6, <1>9, <1>10, <1>11 DEF Books, e

\* One tier, worth its configured bytes, and the rest.
LEMMA BuyOneBooks ==
    ASSUME NEW j, NEW c, NEW es, NEW p, NEW r, NEW b, NEW k, Typed(j, c, es, p, r, b, k),
           Books(j, c, es, p, r, b, k), j.pc = "read", es # <<>>,
           Affordable(j.rem + j.seen) # {}
    PROVE  Books(BuyOne(j, Head(es), j.rem + j.seen), c, es, p, r, b, k)
<1> DEFINE a == j.rem + j.seen
           e == Head(es)
           t == Best(Affordable(a))
           ev == Upgraded(e, t)
           cart == With(Nothing, t, 1)
           rec == [j EXCEPT !.pc = "drop", !.stage = "buy", !.tier = t, !.rem = a - Price[t],
                            !.ev = ev, !.cart = cart]
<1>1. a \in Nat /\ e \in Event /\ e.total \in Nat
  BY Amounts
<1>2. t \in Tiers /\ Price[t] \in Nat /\ Price[t] <= a
  BY <1>1, BestAffordable
<1>3. ev.total = e.total + Bytes[t]
  BY <1>1 DEF Upgraded, Event
<1>4. FullBytes(t) \in Nat /\ Bytes[t] \in Nat
  BY <1>2, TierTypes
<1>5. cart.sats = Price[t] /\ cart.bytes = FullBytes(t)
  <2> HIDE DEF t
  <2> QED  BY <1>2, <1>4 DEF With, Nothing
<1>6. BuyOne(j, e, a) = rec
  BY DEF BuyOne
<1>7. /\ rec.pc = "drop" /\ rec.stage = "buy" /\ rec.high = j.high /\ rec.rem = a - Price[t]
      /\ rec.ev = ev /\ rec.cart = cart
  <2> HIDE DEF t, ev, cart, a, e
  <2> QED  BY DEF Typed, Job
<1> HIDE DEF rec, cart, ev, t, e
<1>8. Carries(rec)
  BY <1>7 DEF Books, Carries, Writing, Rewriting
<1>9. Money(rec, c, r, b, k)
  <2>1. c = 0 /\ Balance(a, c, r, b, k)
    BY DEF Books, Money
  <2>2. cart.sats + (a - Price[t]) = a
    BY <1>1, <1>2, <1>5
  <2> QED  BY <1>7, <2>1, <2>2 DEF Money, Writing, Buying, Rewriting
<1>10. k = 0 => Storage(rec, es, p, b)
  <2>1. k = 0 => Promised(e.total, b.bytes)
    BY DEF Books, Storage, Writing, e
  <2>2. Measured => FullBytes(t) <= Bytes[t]
    BY <1>4 DEF Measured, FullBytes
  <2>3. k = 0 => Promised(ev.total, b.bytes + cart.bytes)
    BY <1>1, <1>3, <1>4, <1>5, <2>1, <2>2, Amounts DEF Promised
  <2> QED  BY <1>7, <2>3 DEF Storage, Writing, Rewriting
<1> QED  BY <1>6, <1>8, <1>9, <1>10 DEF Books, e

\* From the deletion of the old events to the next one, the job alone knows.
LEMMA DropBooks ==
    ASSUME NEW j, NEW c, NEW es, NEW p, NEW r, NEW b, NEW k, Typed(j, c, es, p, r, b, k),
           Books(j, c, es, p, r, b, k), j.pc \in {"drop", "delete"},
           NEW rec, Clearing(j, rec), NEW left
    PROVE  Books(rec, c, left, p, r, b, k)
<1>1. Writing(j) /\ Writing(rec)
  BY DEF Writing, Clearing
<1>2. Carries(rec)  BY <1>1 DEF Books, Carries, Rewriting, Clearing
<1>3. Money(rec, c, r, b, k)  BY <1>1 DEF Books, Money, Buying, Rewriting, Clearing
<1>4. k = 0 => Storage(rec, left, p, b)
  BY <1>1 DEF Books, Storage, Rewriting, Clearing
<1> QED  BY <1>2, <1>3, <1>4 DEF Books

LEMMA SignBooks ==
    ASSUME NEW j, NEW c, NEW es, NEW p, NEW r, NEW b, NEW k, Typed(j, c, es, p, r, b, k),
           Books(j, c, es, p, r, b, k), j.pc = "sign", NEW shown
    PROVE  Books([j EXCEPT !.pc = "store", !.ev.credit = shown], c, es, p, r, b, k)
<1> DEFINE ev == [j.ev EXCEPT !.credit = shown]
           rec == [j EXCEPT !.pc = "store", !.ev = ev]
<1>1. ev.tier = j.ev.tier /\ ev.total = j.ev.total /\ ev.exp = j.ev.exp
  BY Amounts DEF Event
<1> HIDE DEF ev
<1>2. /\ rec.pc = "store" /\ rec.stage = j.stage /\ rec.rem = j.rem /\ rec.seen = j.seen
      /\ rec.high = j.high /\ rec.base = j.base /\ rec.ev = ev /\ rec.cart = j.cart
  BY DEF Typed, Job
<1>3. Writing(j) /\ Writing(rec)
  BY <1>2 DEF Writing
<1>4. [j EXCEPT !.pc = "store", !.ev.credit = shown] = rec
  BY DEF ev, Typed, Job
<1> HIDE DEF rec
<1>5. Carries(rec)  BY <1>1, <1>2, <1>3 DEF Books, Carries, Rewriting
<1>6. Money(rec, c, r, b, k)  BY <1>1, <1>2, <1>3 DEF Books, Money, Buying, Rewriting
<1>7. k = 0 => Storage(rec, es, p, b)
  BY <1>1, <1>2, <1>3 DEF Books, Storage, Rewriting, Recorded
<1> QED  BY <1>4, <1>5, <1>6, <1>7 DEF Books

\* The sale is booked in the step that publishes it.
LEMMA StoreBooks ==
    ASSUME NEW j, NEW c, NEW es, NEW p, NEW r, NEW b, NEW k, Typed(j, c, es, p, r, b, k),
           Books(j, c, es, p, r, b, k), j.pc = "store",
           NEW ev \in Event, ev.total = j.ev.total, ev.exp = j.ev.exp
    PROVE  Books(Continue(j, AfterStore(j.stage)), c, <<ev>> \o es, p, r, Sum(b, j.cart), k)
<1> DEFINE pc == AfterStore(j.stage)
           rec == Continue(j, pc)
           next == <<ev>> \o es
           sold == Sum(b, j.cart)
<1>1. next # <<>> /\ Head(next).total = j.ev.total /\ Head(next).exp = j.ev.exp
  <2>1. es \in Seq(Event) /\ j.ev \in Event
    BY Amounts DEF Typed
  <2> QED  BY <2>1
<1>2. sold.sats = b.sats + j.cart.sats /\ sold.bytes = b.bytes + j.cart.bytes
  BY DEF Sum
<1>3. /\ j.stage # "none" /\ Writing(j)
      /\ Buying(j) \/ j.stage = "credit" => pc = "paid"
      /\ j.stage \in {"refresh", "final"} => pc = "notify"
      /\ j.stage = "usage" => pc = "idle"
  BY DEF Books, Carries, Writing, Buying, AfterStore
<1>4. j.stage \in Stages
  BY DEF Typed, Job
<1>5. CASE j.stage = "usage"
  <2>1. rec = Idle
    BY <1>3, <1>5 DEF Continue
  <2>2. j.cart.sats = 0 /\ j.cart.bytes = 0
    BY <1>3, <1>5, NothingIs DEF Books, Carries, Rewriting
  <2>3. sold.sats = b.sats /\ sold.bytes = b.bytes
    BY <1>2, <2>2, Amounts
  <2> HIDE DEF rec, sold, next, pc
  <2>4. Money(Idle, c, r, sold, k)
    BY <1>3, <1>5, <2>3, IdleIs DEF Books, Money, Rewriting, Balance
  <2>5. k = 0 => Storage(Idle, next, p, sold)
    <3>1. b.bytes + j.cart.bytes = sold.bytes
      BY <2>2, <2>3, Amounts
    <3> QED
      BY <1>1, <1>3, <1>5, <3>1, IdleIs DEF Books, Storage, Rewriting, Recorded
  <2>6. Carries(Idle)  BY IdleIs DEF Carries
  <2> QED  BY <2>1, <2>4, <2>5, <2>6 DEF Books, rec, sold, next, pc
<1>6. CASE j.stage # "usage"
  <2>1. rec = [j EXCEPT !.pc = pc, !.cart = Nothing] /\ pc \in {"paid", "notify"}
    BY <1>3, <1>4, <1>6 DEF Continue, Stages, Buying
  <2> HIDE DEF pc
  <2>2. /\ rec.pc = pc /\ rec.stage = j.stage /\ rec.rem = j.rem /\ rec.seen = j.seen
        /\ rec.high = j.high /\ rec.base = j.base /\ rec.ev = j.ev /\ rec.cart = Nothing
    BY <2>1 DEF Typed, Job
  <2> HIDE DEF rec
  <2>3. ~Writing(rec)
    BY <2>1, <2>2 DEF Writing
  <2>4. k = 0 => Storage(rec, next, p, sold)
    <3>1. k = 0 => Promised(j.ev.total, sold.bytes)
      BY <1>2, <1>3 DEF Books, Storage
    <3>2. k = 0 /\ pc # "paid" => Recorded(j.ev, p)
      BY <1>3, <1>4, <1>6, <2>1 DEF Books, Storage, Rewriting, Buying, Stages
    <3> HIDE DEF next, sold
    <3> QED  BY <1>1, <2>1, <2>2, <2>3, <3>1, <3>2 DEF Storage, Shown, Recorded
  <2>5. CASE j.stage \in {"buy", "extra"}
    <3>1. Carries(rec)
      BY <1>3, <2>1, <2>2, <2>3, <2>5 DEF Books, Carries, Buying
    <3>2. Money(rec, c, r, sold, k)
      <4>1. c = 0 /\ Balance(j.cart.sats + j.rem, c, r, b, k)
        BY <1>3, <2>5 DEF Books, Money, Buying
      <4>2. Balance(j.rem, c, r, sold, k)
        BY <1>2, <4>1, Amounts DEF Balance
      <4> QED  BY <1>3, <2>2, <2>3, <2>5, <4>1, <4>2 DEF Money, Buying
    <3> QED  BY <2>4, <3>1, <3>2 DEF Books, rec, pc
  <2>6. CASE j.stage = "credit"
    <3>1. Carries(rec)
      BY <1>3, <2>1, <2>2, <2>3, <2>6 DEF Books, Carries
    <3>2. Money(rec, c, r, sold, k)
      <4>1. j.seen = c /\ Balance(0, c, r, b, k) /\ j.cart.sats = Price[j.ev.tier]
        BY <1>3, <2>6 DEF Books, Money, Carries
      <4>2. Price[j.ev.tier] \in Nat /\ c \in Nat /\ r \in Nat /\ b.sats \in Nat
            /\ Allowance(k) \in Nat /\ sold.sats = b.sats + Price[j.ev.tier]
        BY <1>2, <4>1, Amounts
      <4>3. Balance(0 - Price[j.ev.tier], c, r, sold, k)
        <5> HIDE DEF sold
        <5> QED  BY <4>1, <4>2 DEF Balance
      <4> QED  BY <1>3, <2>2, <2>3, <2>6, <4>1, <4>3 DEF Money, Buying
    <3> QED  BY <2>4, <3>1, <3>2 DEF Books, rec, pc
  <2>7. CASE j.stage \in {"refresh", "final"}
    <3>1. Carries(rec)
      BY <1>3, <2>1, <2>2, <2>3, <2>7 DEF Books, Carries
    <3>2. Money(rec, c, r, sold, k)
      <4>1. Balance(0, c, r, b, k) /\ (k = 0 => Affordable(c) = {}) /\ j.cart.sats = 0
        BY <1>3, <2>7, NothingIs DEF Books, Money, Carries, Rewriting
      <4>2. Balance(0, c, r, sold, k)
        BY <1>2, <4>1, Amounts DEF Balance
      <4> QED  BY <1>3, <2>2, <2>3, <2>7, <4>1, <4>2 DEF Money, Buying
    <3> QED  BY <2>4, <3>1, <3>2 DEF Books, rec, pc
  <2> QED  BY <1>3, <1>4, <1>6, <2>5, <2>6, <2>7 DEF Stages
<1> QED  BY <1>5, <1>6

\* The record says what the event says.
LEMMA PaidBooks ==
    ASSUME NEW j, NEW c, NEW es, NEW p, NEW r, NEW b, NEW k, Typed(j, c, es, p, r, b, k),
           Books(j, c, es, p, r, b, k), j.pc = "paid"
    PROVE  Books([j EXCEPT !.pc = AfterPaid(j)], c, es, PaidRecord(j), r, b, k)
<1> DEFINE pc == AfterPaid(j)
           rec == [j EXCEPT !.pc = pc]
           row == PaidRecord(j)
<1>1. /\ j.stage \in {"buy", "extra", "credit"} /\ j.cart = Nothing /\ ~Writing(j)
      /\ j.stage = "buy" /\ j.high => j.base = j.ev.total
  BY DEF Books, Carries, Writing
<1>2. /\ j.stage = "credit" => pc = "charge"
      /\ Buying(j) => pc \in {"cascade", "leftover", "final", "notify"}
      /\ pc = "cascade" => j.stage = "buy" /\ j.high
      /\ pc \in {"final", "notify"} => ~(j.rem > 0)
  BY <1>1 DEF AfterPaid, Settle, Buying
<1>3. pc \in PCs /\ pc \in {"charge", "cascade", "leftover", "final", "notify"}
  BY <1>1, <1>2 DEF PCs, Buying
<1> HIDE DEF pc
<1>4. /\ rec.pc = pc /\ rec.stage = j.stage /\ rec.rem = j.rem /\ rec.seen = j.seen
      /\ rec.high = j.high /\ rec.base = j.base /\ rec.ev = j.ev /\ rec.cart = j.cart
  BY <1>3, Onward DEF Typed
<1> HIDE DEF rec
<1>5. ~Writing(rec)
  BY <1>3, <1>4 DEF Writing
<1>6. Carries(rec)
  BY <1>1, <1>2, <1>3, <1>4, <1>5, NothingIs, Amounts DEF Carries
<1>7. Money(rec, c, r, b, k)
  <2>1. CASE j.stage = "credit"
    <3>1. pc = "charge" /\ j.seen = c /\ Balance(0 - Price[j.ev.tier], c, r, b, k)
      BY <1>2, <2>1 DEF Books, Money
    <3> QED  BY <1>4, <1>5, <3>1 DEF Money
  <2>2. CASE j.stage # "credit"
    <3>1. c = 0 /\ Balance(j.rem, c, r, b, k) /\ Buying(j)
      BY <1>1, <2>2 DEF Books, Money, Buying
    <3>2. pc \in {"final", "notify"} => Balance(0, c, r, b, k) /\ Affordable(c) = {}
      <4>1. pc \in {"final", "notify"} => j.rem = 0
        BY <1>2, Amounts
      <4> QED  BY <3>1, <4>1, NothingAffordable
    <3>3. j.cart.sats + j.rem = j.rem
      BY <1>1, NothingIs, Amounts
    <3> QED  BY <1>2, <1>4, <1>5, <3>1, <3>2, <3>3 DEF Money
  <2> QED  BY <2>1, <2>2
<1>8. k = 0 => Storage(rec, es, row, b)
  <2>1. row.bytes = j.ev.total /\ row.exp = j.ev.exp
    BY DEF PaidRecord
  <2> HIDE DEF row
  <2>2. k = 0 => es # <<>> /\ Promised(Head(es).total, b.bytes) /\ Shown(j.ev, es)
    BY <1>1 DEF Books, Storage
  <2>3. k = 0 => Recorded(Head(es), row)
    BY <2>1, <2>2, Amounts DEF Recorded, Shown
  <2> QED  BY <1>1, <1>2, <1>3, <1>4, <1>5, <2>2, <2>3 DEF Storage, Shown
<1> QED  BY <1>6, <1>7, <1>8 DEF Books, rec, pc

\* A lower tier moves from the remainder to the cart.
LEMMA TakeBooks ==
    ASSUME ValidTiers, NEW j, NEW c, NEW es, NEW p, NEW r, NEW b, NEW k,
           Typed(j, c, es, p, r, b, k),
           Books(j, c, es, p, r, b, k), j.pc = "cascade", NEW t \in InReach(j)
    PROVE  Books(Take(j, t), c, es, p, r, b, k)
<1> DEFINE more == FullBytes(t)
           cart == With(j.cart, t, 1)
           ev == [j.ev EXCEPT !.total = j.ev.total + more]
           rec == [j EXCEPT !.rem = j.rem - Price[t], !.pool = j.pool \ {t},
                            !.ev = ev, !.cart = cart]
<1>1. t \in Tiers /\ Price[t] \in Nat /\ Price[t] <= j.rem
  <2>1. j.pool \in SUBSET Tiers
    BY DEF Typed, Job, Pool
  <2> QED  BY <2>1, TierTypes DEF InReach
<1>2. more \in Nat /\ more > 0
  BY <1>1, TierTypes DEF ValidTiers, FullBytes
<1>3. cart.sats = j.cart.sats + Price[t] /\ cart.bytes = j.cart.bytes + more
  <2> HIDE DEF more
  <2>1. 1 * Price[t] = Price[t] /\ 1 * more = more
    BY <1>1, <1>2
  <2> QED  BY <2>1 DEF With, more
<1>4. ev.total = j.ev.total + more /\ ev.exp = j.ev.exp
  BY Amounts DEF Event
<1>5. Take(j, t) = rec
  BY DEF Take, Typed, Job
<1>6. /\ rec.pc = "cascade" /\ rec.stage = j.stage /\ rec.rem = j.rem - Price[t]
      /\ rec.base = j.base /\ rec.ev = ev /\ rec.cart = cart
  <2> HIDE DEF ev, cart, more
  <2> QED  BY DEF Typed, Job
<1> HIDE DEF rec, ev, cart, more
<1>7. ~Writing(rec) /\ ~Writing(j)
  BY <1>6 DEF Writing
<1>8. Carries(rec)
  <2>1. j.ev.total = j.base + j.cart.bytes
    BY DEF Books, Carries
  <2> QED  BY <1>2, <1>3, <1>4, <1>6, <1>7, <2>1, Amounts DEF Carries
<1>9. Money(rec, c, r, b, k)
  <2>1. c = 0 /\ Balance(j.cart.sats + j.rem, c, r, b, k)
    BY DEF Books, Money
  <2>2. cart.sats + (j.rem - Price[t]) = j.cart.sats + j.rem
    BY <1>1, <1>3, Amounts
  <2> QED  BY <1>6, <1>7, <2>1, <2>2 DEF Money
<1>10. k = 0 => Storage(rec, es, p, b)
  BY <1>4, <1>6, <1>7 DEF Books, Storage
<1> QED  BY <1>5, <1>8, <1>9, <1>10 DEF Books

\* What the cascade has taken is published; it has taken nothing, or storage.
LEMMA ExtraBooks ==
    ASSUME NEW j, NEW c, NEW es, NEW p, NEW r, NEW b, NEW k, Typed(j, c, es, p, r, b, k),
           Books(j, c, es, p, r, b, k), j.pc = "cascade"
    PROVE  Books([j EXCEPT !.pc = "drop", !.stage = "extra"], c, es, p, r, b, k)
<1> DEFINE rec == [j EXCEPT !.pc = "drop", !.stage = "extra"]
<1>1. /\ rec.pc = "drop" /\ rec.stage = "extra" /\ rec.rem = j.rem /\ rec.ev = j.ev
      /\ rec.cart = j.cart
  BY DEF Typed, Job
<1> HIDE DEF rec
<1>2. Carries(rec)
  BY <1>1 DEF Carries, Writing, Rewriting
<1>3. Money(rec, c, r, b, k)
  BY <1>1 DEF Books, Money, Writing, Buying, Rewriting
<1>4. k = 0 => Storage(rec, es, p, b)
  <2>1. /\ k = 0 => Promised(j.base, b.bytes)
        /\ j.ev.total = j.base + j.cart.bytes
    BY DEF Books, Carries, Storage, Writing
  <2>2. k = 0 => Promised(j.ev.total, b.bytes + j.cart.bytes)
    BY <2>1, Amounts DEF Promised
  <2> QED  BY <1>1, <2>2 DEF Storage, Writing, Rewriting
<1> QED  BY <1>2, <1>3, <1>4 DEF Books, rec

LEMMA SettleBooks ==
    ASSUME NEW j, NEW c, NEW es, NEW p, NEW r, NEW b, NEW k, Typed(j, c, es, p, r, b, k),
           Books(j, c, es, p, r, b, k), j.pc = "cascade", ~(j.ev.total > j.base)
    PROVE  Books([j EXCEPT !.pc = Settle(j)], c, es, p, r, b, k)
<1> DEFINE pc == Settle(j)
           rec == [j EXCEPT !.pc = pc]
<1>1. pc \in {"leftover", "final", "notify"} /\ (pc # "leftover" => ~(j.rem > 0))
  BY DEF Settle
<1> HIDE DEF pc
<1>2. j.cart.bytes = 0 /\ j.ev.total = j.base
  BY Amounts DEF Books, Carries
<1>3. j.cart.sats = 0
  BY <1>2, Amounts DEF Books, Carries
<1>4. j.cart = Nothing
  BY <1>2, <1>3, Amounts DEF Sale, Nothing
<1>5. /\ rec.pc = pc /\ rec.stage = j.stage /\ rec.rem = j.rem /\ rec.seen = j.seen
      /\ rec.high = j.high /\ rec.base = j.base /\ rec.ev = j.ev /\ rec.cart = j.cart
  BY <1>1, Onward DEF Typed, PCs
<1> HIDE DEF rec
<1>6. ~Writing(rec) /\ ~Writing(j)
  BY <1>1, <1>5 DEF Writing
<1>7. Carries(rec)
  BY <1>1, <1>4, <1>5, <1>6 DEF Carries
<1>8. Money(rec, c, r, b, k)
  <2>1. c = 0 /\ Balance(j.cart.sats + j.rem, c, r, b, k)
    BY DEF Books, Money
  <2>2. j.cart.sats + j.rem = j.rem
    BY <1>3, Amounts
  <2>3. pc # "leftover" => j.rem = 0
    BY <1>1, Amounts
  <2> QED  BY <1>1, <1>5, <1>6, <2>1, <2>2, <2>3, NothingAffordable DEF Money
<1>9. k = 0 => Storage(rec, es, p, b)
  BY <1>1, <1>2, <1>5, <1>6 DEF Books, Storage, Shown
<1> QED  BY <1>7, <1>8, <1>9 DEF Books, rec, pc

LEMMA LeftoverBooks ==
    ASSUME NEW j, NEW c, NEW es, NEW p, NEW r, NEW b, NEW k, Typed(j, c, es, p, r, b, k),
           Books(j, c, es, p, r, b, k), j.pc = "leftover"
    PROVE  Books([j EXCEPT !.pc = "apply"], j.rem, es, p, r, b, k)
<1> DEFINE rec == [j EXCEPT !.pc = "apply"]
<1>1. /\ rec.pc = "apply" /\ rec.stage = j.stage /\ rec.rem = j.rem /\ rec.seen = j.seen
      /\ rec.high = j.high /\ rec.base = j.base /\ rec.ev = j.ev /\ rec.cart = j.cart
  BY Onward DEF Typed, PCs
<1> HIDE DEF rec
<1>2. ~Writing(rec) /\ ~Writing(j)
  BY <1>1 DEF Writing
<1>3. Carries(rec)  BY <1>1, <1>2 DEF Books, Carries
<1>4. Money(rec, j.rem, r, b, k)
  <2>1. c = 0 /\ Balance(j.rem, c, r, b, k)
    BY DEF Books, Money
  <2>2. Balance(0, j.rem, r, b, k)
    BY <2>1, Amounts DEF Balance
  <2> QED  BY <1>1, <1>2, <2>2 DEF Money
<1>5. k = 0 => Storage(rec, es, p, b)  BY <1>1, <1>2 DEF Books, Storage
<1> QED  BY <1>3, <1>4, <1>5 DEF Books, rec

\* Credit that covers a tier goes into the cart; otherwise none does.
LEMMA ApplyBooks ==
    ASSUME NEW j, NEW c, NEW es, NEW p, NEW r, NEW b, NEW k, Typed(j, c, es, p, r, b, k),
           Books(j, c, es, p, r, b, k), j.pc = "apply"
    PROVE  /\ Affordable(c) = {} => Books([j EXCEPT !.pc = "final"], c, es, p, r, b, k)
           /\ Affordable(c) # {} =>
                 Books(BuyOnCredit(j, Best(Affordable(c)), c), c, es, p, r, b, k)
<1>0. Balance(0, c, r, b, k) /\ j.cart = Nothing
  BY DEF Books, Money, Carries, Writing
<1>1. ASSUME Affordable(c) = {} PROVE Books([j EXCEPT !.pc = "final"], c, es, p, r, b, k)
  <2> DEFINE rec == [j EXCEPT !.pc = "final"]
  <2>1. /\ rec.pc = "final" /\ rec.stage = j.stage /\ rec.rem = j.rem /\ rec.seen = j.seen
        /\ rec.high = j.high /\ rec.base = j.base /\ rec.ev = j.ev /\ rec.cart = j.cart
    BY Onward DEF Typed, PCs
  <2> HIDE DEF rec
  <2>2. ~Writing(rec) /\ ~Writing(j)
    BY <2>1 DEF Writing
  <2>3. Carries(rec)  BY <1>0, <2>1, <2>2 DEF Carries
  <2>4. Money(rec, c, r, b, k)  BY <1>0, <1>1, <2>1, <2>2 DEF Money
  <2>5. k = 0 => Storage(rec, es, p, b)  BY <2>1, <2>2 DEF Books, Storage
  <2> QED  BY <2>3, <2>4, <2>5 DEF Books, rec
<1>2. ASSUME Affordable(c) # {}
      PROVE  Books(BuyOnCredit(j, Best(Affordable(c)), c), c, es, p, r, b, k)
  <2> DEFINE t == Best(Affordable(c))
             more == FullBytes(t)
             cart == With(Nothing, t, 1)
             ev == [j.ev EXCEPT !.tier = t, !.total = j.ev.total + more]
             rec == [j EXCEPT !.pc = "drop", !.stage = "credit", !.seen = c, !.cart = cart,
                              !.ev = ev]
  <2>1. t \in Tiers /\ Price[t] \in Nat /\ more \in Nat
    BY <1>2, Amounts, BestAffordable, TierTypes
  <2>2. BuyOnCredit(j, t, c) = rec
    BY DEF BuyOnCredit, Typed, Job
  <2> HIDE DEF t
  <2>3. cart.sats = Price[t] /\ cart.bytes = more
    <3> HIDE DEF more
    <3>1. 1 * Price[t] = Price[t] /\ 1 * more = more
      BY <2>1
    <3> QED  BY <2>1, <3>1 DEF With, Nothing, more
  <2>4. ev.tier = t /\ ev.total = j.ev.total + more
    BY Amounts DEF Event
  <2> HIDE DEF ev, cart, more
  <2>5. /\ rec.pc = "drop" /\ rec.stage = "credit" /\ rec.seen = c /\ rec.ev = ev
        /\ rec.cart = cart
    BY DEF Typed, Job
  <2> HIDE DEF rec
  <2>6. Carries(rec)  BY <2>3, <2>4, <2>5 DEF Carries, Writing, Rewriting
  <2>7. Money(rec, c, r, b, k)  BY <1>0, <2>5 DEF Money, Writing, Buying, Rewriting
  <2>8. k = 0 => Storage(rec, es, p, b)
    <3>1. k = 0 => Promised(j.ev.total, b.bytes)
      BY DEF Books, Storage, Writing, Shown
    <3>2. k = 0 => Promised(ev.total, b.bytes + cart.bytes)
      BY <2>1, <2>3, <2>4, <3>1, Amounts DEF Promised
    <3> QED  BY <2>5, <3>2 DEF Storage, Writing, Rewriting
  <2> QED  BY <2>2, <2>6, <2>7, <2>8 DEF Books, t
<1> QED  BY <1>1, <1>2

\* The tier bought on credit, published before, is paid.
LEMMA ChargeBooks ==
    ASSUME NEW j, NEW c, NEW es, NEW p, NEW r, NEW b, NEW k, Typed(j, c, es, p, r, b, k),
           Books(j, c, es, p, r, b, k), j.pc = "charge", Price[j.ev.tier] <= j.seen
    PROVE  Books([j EXCEPT !.pc = AfterCharge(j)], Remaining(j), es, p, r, b, k)
<1> DEFINE pc == AfterCharge(j)
           rec == [j EXCEPT !.pc = pc]
           left == Remaining(j)
<1>1. /\ left \in Nat /\ left = j.seen - Price[j.ev.tier]
      /\ pc \in {"apply", "final"} /\ (pc = "final" => left = 0)
  BY Amounts DEF AfterCharge, Remaining
<1> HIDE DEF pc, left
<1>2. /\ rec.pc = pc /\ rec.stage = j.stage /\ rec.rem = j.rem /\ rec.seen = j.seen
      /\ rec.high = j.high /\ rec.base = j.base /\ rec.ev = j.ev /\ rec.cart = j.cart
  BY <1>1, Onward DEF Typed, PCs
<1> HIDE DEF rec
<1>3. ~Writing(rec) /\ ~Writing(j)
  BY <1>1, <1>2 DEF Writing
<1>4. Carries(rec)  BY <1>1, <1>2, <1>3 DEF Books, Carries
<1>5. Money(rec, left, r, b, k)
  <2>1. j.seen = c /\ Balance(0 - Price[j.ev.tier], c, r, b, k)
    BY DEF Books, Money
  <2>2. Balance(0, left, r, b, k)
    <3> DEFINE price == Price[j.ev.tier]
    <3>1. price \in Nat /\ c \in Nat /\ b.sats \in Nat /\ left = c - price
      BY <1>1, <2>1, Amounts
    <3>2. Balance(0 - price, c, r, b, k)
      BY <2>1
    <3>3. r \in Nat /\ Allowance(k) \in Nat
      BY Amounts
    <3> HIDE DEF price
    <3>4. c + b.sats + (0 - price) = left + b.sats + 0
      BY <1>1, <3>1
    <3> QED  BY <3>2, <3>4 DEF Balance
  <2> QED  BY <1>1, <1>2, <1>3, <2>2, NothingAffordable DEF Money
<1>6. k = 0 => Storage(rec, es, p, b)  BY <1>1, <1>2, <1>3 DEF Books, Storage, Shown
<1> QED  BY <1>4, <1>5, <1>6 DEF Books, rec, pc, left

LEMMA FinalBooks ==
    ASSUME NEW j, NEW c, NEW es, NEW p, NEW r, NEW b, NEW k, Typed(j, c, es, p, r, b, k),
           Books(j, c, es, p, r, b, k), j.pc = "final"
    PROVE  /\ Books([j EXCEPT !.pc = "notify"], c, es, p, r, b, k)
           /\ Books([j EXCEPT !.pc = "drop", !.stage = "final", !.ev.tier = j.tier],
                    c, es, p, r, b, k)
<1>0. /\ j.cart = Nothing /\ Balance(0, c, r, b, k) /\ (k = 0 => Affordable(c) = {})
      /\ k = 0 => /\ Promised(Head(es).total, b.bytes) /\ Recorded(Head(es), p)
                  /\ Shown(j.ev, es) /\ es # <<>>
  BY DEF Books, Money, Carries, Storage, Writing
<1>1. Books([j EXCEPT !.pc = "notify"], c, es, p, r, b, k)
  <2> DEFINE rec == [j EXCEPT !.pc = "notify"]
  <2>1. rec.pc = "notify" /\ rec.cart = j.cart
    BY Onward DEF Typed, PCs
  <2> HIDE DEF rec
  <2>2. ~Writing(rec)
    BY <2>1 DEF Writing
  <2>3. Carries(rec)  BY <1>0, <2>1, <2>2 DEF Carries
  <2>4. Money(rec, c, r, b, k)  BY <1>0, <2>1, <2>2 DEF Money
  <2>5. k = 0 => Storage(rec, es, p, b)  BY <1>0, <2>1, <2>2 DEF Storage
  <2> QED  BY <2>3, <2>4, <2>5 DEF Books, rec
<1>2. Books([j EXCEPT !.pc = "drop", !.stage = "final", !.ev.tier = j.tier],
            c, es, p, r, b, k)
  <2> DEFINE ev == [j.ev EXCEPT !.tier = j.tier]
             rec == [j EXCEPT !.pc = "drop", !.stage = "final", !.ev = ev]
  <2>1. ev.total = j.ev.total /\ ev.exp = j.ev.exp
    BY Amounts DEF Event
  <2>2. [j EXCEPT !.pc = "drop", !.stage = "final", !.ev.tier = j.tier] = rec
    BY DEF Typed, Job
  <2> HIDE DEF ev
  <2>3. rec.pc = "drop" /\ rec.stage = "final" /\ rec.ev = ev /\ rec.cart = j.cart
    BY DEF Typed, Job
  <2> HIDE DEF rec
  <2>4. Writing(rec) /\ Rewriting(rec) /\ ~Buying(rec)
    BY <2>3 DEF Writing, Rewriting, Buying
  <2>5. Carries(rec)  BY <1>0, <2>3, <2>4 DEF Carries
  <2>6. Money(rec, c, r, b, k)  BY <1>0, <2>3, <2>4 DEF Money
  <2>7. k = 0 => Storage(rec, es, p, b)
    <3>1. b.bytes + rec.cart.bytes = b.bytes
      BY <1>0, <2>3, NothingIs, Amounts
    <3>2. k = 0 => Recorded(ev, p) /\ Promised(ev.total, b.bytes)
      BY <1>0, <2>1 DEF Shown, Recorded
    <3> QED  BY <2>3, <2>4, <3>1, <3>2 DEF Storage
  <2> QED  BY <2>2, <2>5, <2>6, <2>7 DEF Books
<1> QED  BY <1>1, <1>2

\* A delivery, an upload, a login and a read-back start from books at rest.
LEMMA FreshBooks ==
    ASSUME NEW c, NEW es, NEW p, NEW r, NEW b, NEW k, Books(Idle, c, es, p, r, b, k),
           NEW tx, NEW u
    PROVE  Books([Idle EXCEPT !.pc = "save", !.tx = tx, !.user = u], c, es, p, r, b, k)
<1> DEFINE rec == [Idle EXCEPT !.pc = "save", !.tx = tx, !.user = u]
<1>1. rec.pc = "save" /\ rec.stage = "none" /\ rec.cart = Nothing /\ ~rec.high
  BY DEF Idle
<1> HIDE DEF rec
<1>2. ~Writing(rec)
  BY <1>1 DEF Writing
<1>3. Carries(rec)  BY <1>1, <1>2 DEF Carries
<1>4. Money(rec, c, r, b, k)  BY <1>1, <1>2, IdleIs DEF Books, Money
<1>5. k = 0 => Storage(rec, es, p, b)  BY <1>1, <1>2, IdleIs DEF Books, Storage
<1> QED  BY <1>3, <1>4, <1>5 DEF Books, rec

LEMMA RewriteBooks ==
    ASSUME NEW c, NEW es, NEW p, NEW r, NEW b, NEW k, Typed(Idle, c, es, p, r, b, k),
           Books(Idle, c, es, p, r, b, k),
           NEW u, NEW pc \in {"drop", "sign"}, NEW ev,
           k = 0 => Promised(ev.total, b.bytes) /\ Recorded(ev, p)
    PROVE  Books([Idle EXCEPT !.pc = pc, !.stage = "usage", !.user = u, !.ev = ev],
                 c, es, p, r, b, k)
<1> DEFINE rec == [Idle EXCEPT !.pc = pc, !.stage = "usage", !.user = u, !.ev = ev]
<1>1. rec.pc = pc /\ rec.stage = "usage" /\ rec.cart = Nothing /\ rec.ev = ev
  BY DEF Idle
<1> HIDE DEF rec
<1>2. Writing(rec) /\ Rewriting(rec) /\ ~Buying(rec)
  BY <1>1 DEF Writing, Rewriting, Buying
<1>3. Carries(rec)  BY <1>1, <1>2 DEF Carries
<1>4. Money(rec, c, r, b, k)
  BY <1>1, <1>2, IdleIs DEF Books, Money
<1>5. k = 0 => Storage(rec, es, p, b)
  <2>1. b.bytes + rec.cart.bytes = b.bytes
    BY <1>1, NothingIs, Amounts
  <2> QED  BY <1>1, <1>2, <2>1 DEF Storage
<1> QED  BY <1>3, <1>4, <1>5 DEF Books, rec

\* Uploads, read-backs and logins write an event that is worth the newest one.
LEMMA RewrittenBooks ==
    ASSUME NEW c, NEW es, NEW p, NEW r, NEW b, NEW k, Typed(Idle, c, es, p, r, b, k),
           Books(Idle, c, es, p, r, b, k), NEW u, month \in Nat
    PROVE  /\ es # <<>> =>
                /\ Books([Idle EXCEPT !.pc = "drop", !.stage = "usage", !.user = u,
                                      !.ev = [Head(es) EXCEPT !.used = @ + 1]],
                         c, es, p, r, b, k)
                /\ Books([Idle EXCEPT !.pc = "sign", !.stage = "usage", !.user = u,
                                      !.ev = Expected(Head(es))], c, es, p, r, b, k)
           /\ es = <<>> =>
                Books([Idle EXCEPT !.pc = "sign", !.stage = "usage", !.user = u,
                                   !.ev = FirstEvent], c, es, p, r, b, k)
<1> DEFINE e == Head(es)
<1>1. k = 0 => es # <<>> /\ Promised(e.total, b.bytes) /\ Recorded(e, p)
  BY IdleIs DEF Books, Storage
<1>2. CASE es = <<>>
  BY <1>1, <1>2, RewriteBooks
<1>3. CASE es # <<>>
  <2> DEFINE used == [e EXCEPT !.used = @ + 1]
             exp == IF e.exp < month THEN month + 1 ELSE e.exp
             total == IF e.total < FullBytes(ExpectedTier) THEN FullBytes(ExpectedTier)
                      ELSE e.total
             read == [e EXCEPT !.tier = ExpectedTier, !.exp = exp, !.total = total]
  <2>1. e \in Event /\ e.total \in Nat /\ e.exp \in Nat
    BY <1>3, Amounts
  <2>2. used.total = e.total /\ used.exp = e.exp
    BY <2>1 DEF Event
  <2>3. Expected(e) = read
    BY DEF Expected
  <2>4. exp \in Nat /\ exp >= e.exp
    BY <2>1
  <2>5. k = 0 /\ Measured => total = e.total
    <3>1. ASSUME Measured PROVE FullBytes(FreeTier) <= Bytes[FreeTier]
      BY <3>1, TierTypes DEF Measured, FullBytes
    <3>2. k = 0 /\ Measured => e.total >= Bytes[FreeTier] + b.bytes
      BY <1>1 DEF Promised
    <3>3. FullBytes(FreeTier) \in Nat
      BY TierTypes
    <3> QED  BY <2>1, <3>1, <3>2, <3>3, Amounts DEF ExpectedTier
  <2> HIDE DEF exp, total
  <2>6. read.total = total /\ read.exp = exp
    BY <2>1 DEF Event
  <2> HIDE DEF used, read, e
  <2>7. k = 0 => Promised(used.total, b.bytes) /\ Recorded(used, p)
    BY <1>1, <2>2 DEF Recorded
  <2>8. k = 0 => Promised(read.total, b.bytes)
    BY <1>1, <2>5, <2>6 DEF Promised
  <2>9. k = 0 => Recorded(read, p)
    <3>1. p # NoPaid => p.exp \in Nat
      BY DEF Typed
    <3> QED  BY <1>1, <2>1, <2>4, <2>5, <2>6, <3>1 DEF Recorded
  <2>10. Books([Idle EXCEPT !.pc = "drop", !.stage = "usage", !.user = u, !.ev = used],
               c, es, p, r, b, k)
    BY <2>7, RewriteBooks
  <2>11. Books([Idle EXCEPT !.pc = "sign", !.stage = "usage", !.user = u, !.ev = read],
               c, es, p, r, b, k)
    BY <2>8, <2>9, RewriteBooks
  <2> QED  BY <1>3, <2>3, <2>10, <2>11 DEF used, e
<1> QED  BY <1>2, <1>3

\* No tier costs more than the highest.
LEMMA HighestIsDearest == ASSUME NEW t \in Tiers PROVE Price[t] <= Price[HighestTier]
<1> DEFINE S == {s \in Tiers : Price[s] > 0}
<1>1. CASE t \in S
  <2>1. S \in SUBSET Tiers /\ S # {}
    BY <1>1
  <2> QED  BY <1>1, <2>1, BestIsDearest DEF HighestTier
<1>2. CASE t \notin S
  BY <1>2, TierTypes, HighestType
<1> QED  BY <1>1, <1>2

LEMMA AllowanceNext ==
    ASSUME NEW k \in Nat PROVE Allowance(k + 1) = Allowance(k) + Price[HighestTier]
<1> DEFINE P == Price[HighestTier]
<1>1. P \in Nat
  BY HighestType
<1> HIDE DEF P
<1>2. (k + 1) * P = k * P + P
  BY <1>1, Z3
<1> QED  BY <1>2 DEF Allowance, P

\* A crash: whatever was in no book is lost to the user, except the tier that
\* was published and not charged, which is lost to the relay.
LEMMA CrashBooks ==
    ASSUME NEW j, NEW c, NEW es, NEW p, NEW r, NEW b, NEW k, Typed(j, c, es, p, r, b, k),
           Books(j, c, es, p, r, b, k)
    PROVE  Books(Idle, c, es, p, r, b, k + 1)
<1>1. Allowance(k + 1) = Allowance(k) + Price[HighestTier]
  BY AllowanceNext DEF Typed
<1>2. Price[HighestTier] \in Nat /\ Price[j.ev.tier] <= Price[HighestTier] /\ k + 1 # 0
      /\ k + 1 \in Nat
  <2>1. j.ev.tier \in Tiers /\ k \in Nat
    BY Amounts DEF Typed
  <2>2. Price[j.ev.tier] <= Price[HighestTier]
    BY <2>1, HighestIsDearest
  <2> QED  BY <2>1, <2>2, HighestType
<1> DEFINE Loss == \E x \in Int : x + Price[HighestTier] >= 0 /\ Balance(x, c, r, b, k)
<1>3. Loss
  <2>1. j.pc \in PCs /\ j.stage \in Stages
    BY DEF Typed, Job
  <2>2. ASSUME NEW x \in Nat, Balance(x, c, r, b, k) PROVE Loss
    BY <1>2, <2>2
  <2>3. CASE j.pc \in {"bank", "reset", "leftover"} \/ (j.pc = "paid" /\ Buying(j))
    BY <2>2, <2>3, Amounts DEF Books, Money
  <2>4. CASE j.pc = "read"
    <3>1. j.rem + j.seen \in Nat  BY Amounts
    <3> QED  BY <2>2, <2>4, <3>1 DEF Books, Money
  <2>5. CASE j.pc = "cascade" \/ (Writing(j) /\ Buying(j))
    <3>1. j.cart.sats + j.rem \in Nat  BY Amounts
    <3> QED  BY <2>2, <2>5, <3>1 DEF Books, Money
  <2>6. CASE j.pc = "charge" \/ (j.pc = "paid" /\ j.stage = "credit")
    <3>1. Balance(0 - Price[j.ev.tier], c, r, b, k)
      BY <2>6 DEF Books, Money
    <3>2. 0 - Price[j.ev.tier] \in Int /\ 0 - Price[j.ev.tier] + Price[HighestTier] >= 0
      BY <1>2, Amounts
    <3> QED  BY <3>1, <3>2
  <2>7. CASE \/ j.pc \in {"idle", "save", "total", "refresh", "final", "notify", "apply"}
             \/ Writing(j) /\ (Rewriting(j) \/ j.stage = "credit")
    BY <2>2, <2>7 DEF Books, Money
  <2>8. Writing(j) => Rewriting(j) \/ Buying(j) \/ j.stage = "credit"
    BY <2>1 DEF Books, Carries, Rewriting, Buying, Stages
  <2>9. j.pc = "paid" => Buying(j) \/ j.stage = "credit"
    BY DEF Books, Carries, Buying
  <2> QED
    <3> HIDE DEF Loss
    <3>1. j.pc \in {"drop", "delete", "sign", "store"} => Writing(j)
      BY DEF Writing
    <3>2. Writing(j) => Loss
      BY <2>5, <2>7, <2>8
    <3>3. j.pc = "paid" => Loss
      BY <2>3, <2>6, <2>9
    <3> QED  BY <2>1, <2>3, <2>4, <2>5, <2>6, <2>7, <3>1, <3>2, <3>3 DEF PCs
<1>4. Balance(0, c, r, b, k + 1)
  BY <1>1, <1>2, <1>3, Amounts DEF Balance
<1>5. Carries(Idle)  BY IdleIs DEF Carries
<1>6. Money(Idle, c, r, b, k + 1)  BY <1>2, <1>4, IdleIs DEF Money
<1> QED  BY <1>2, <1>5, <1>6 DEF Books

-----------------------------------------------------------------------------
(* From the books of a job to the books of all users.                       *)

LEMMA TypedFacts ==
    ASSUME IInv, NEW u \in Users
    PROVE  /\ Typed(Idle, credit[u], events[u], paid[u], received[u], bought[u], count.restart)
           /\ \A w \in Workers :
                Typed(job[w], credit[u], events[u], paid[u], received[u], bought[u], count.restart)
<1>1. /\ credit[u] \in Nat /\ events[u] \in Seq(Event) /\ received[u] \in Nat
      /\ bought[u] \in Sale /\ count.restart \in Nat
      /\ paid[u] = NoPaid \/ paid[u] \in [tier : Tiers, exp : Nat, bytes : Nat]
  BY DEF IInv, StoreTypes, OtherTypes, Count
<1>2. \A w \in Workers : job[w] \in Job /\ job[w].rem \in Nat /\ job[w].seen \in Nat
  BY DEF IInv, JobsOK, JobInv
<1>3. Idle \in Job /\ Idle.rem \in Nat /\ Idle.seen \in Nat
  <2>1. JobInv(Idle, bought)
    BY IdleInv
  <2> QED  BY <2>1 DEF JobInv
<1> QED  BY <1>1, <1>2, <1>3 DEF Typed

\* The books of a user a goroutine works for.
LEMMA AtWork ==
    ASSUME IInv, Ledger, NEW w \in Workers, job[w].pc # "idle", NEW u, u = User(w)
    PROVE  /\ u \in Users /\ Busy(w, u) /\ job[w].user = u
           /\ JobInv(job[w], bought)
           /\ Typed(job[w], credit[u], events[u], paid[u], received[u], bought[u], count.restart)
           /\ Books(job[w], credit[u], events[u], paid[u], received[u], bought[u], count.restart)
<1>1. u \in Users /\ Busy(w, u) /\ job[w].user = u /\ JobInv(job[w], bought)
  BY JobFacts DEF User, Busy
<1>2. BooksOf(u, job[w])
  BY <1>1 DEF Ledger
<1> QED  BY <1>1, <1>2, TypedFacts DEF BooksOf

\* A goroutine starts to work for a user: nobody else does.
LEMMA Starts ==
    ASSUME IInv, Ledger, OnePerUser', NEW w \in Workers, NEW u \in Users, At(w, "idle"),
           NEW rec, Go(w, rec), rec.pc # "idle", rec.user = u
    PROVE  /\ \A v \in Workers : ~Busy(v, u)
           /\ Typed(Idle, credit[u], events[u], paid[u], received[u], bought[u], count.restart)
           /\ Books(Idle, credit[u], events[u], paid[u], received[u], bought[u], count.restart)
<1>1. job'[w] = rec /\ \A v \in Workers : v # w => job'[v] = job[v]
  BY DEF Go, IInv, JobsOK
<1>2. ASSUME NEW v \in Workers, Busy(v, u) PROVE FALSE
  <2>1. v # w
    BY <1>2 DEF Busy, At
  <2>2. job'[v] = job[v] /\ job[v].pc # "idle" /\ job[v].user = u
    BY <1>1, <1>2, <2>1 DEF Busy
  <2> QED  BY <1>1, <2>1, <2>2 DEF OnePerUser, At, User
<1>3. BooksOf(u, Idle)
  BY <1>2 DEF Ledger
<1> QED  BY <1>2, <1>3, TypedFacts DEF BooksOf

\* A step for user u that keeps u's books keeps everyone's.
LEMMA OwnStep ==
    ASSUME IInv, Ledger, OnePerUser, OnePerUser',
           NEW w \in Workers, NEW u \in Users, NEW rec, Go(w, rec),
           Busy(w, u) \/ (At(w, "idle") /\ rec.pc # "idle"),
           rec = Idle \/ (rec.pc # "idle" /\ rec.user = u),
           Books(rec, credit'[u], events'[u], paid'[u], received'[u], bought'[u], count'.restart),
           count'.restart = count.restart,
           \A x \in Users \ {u} :
               /\ credit'[x] = credit[x] /\ events'[x] = events[x] /\ paid'[x] = paid[x]
               /\ received'[x] = received[x] /\ bought'[x] = bought[x]
    PROVE  Ledger'
<1>1. job'[w] = rec /\ \A v \in Workers : v # w => job'[v] = job[v]
  BY DEF Go, IInv, JobsOK
<1>2. ASSUME NEW v \in Workers, v # w, job'[v].pc # "idle" PROVE job'[v].user # u
  <2>1. job'[v] = job[v]
    BY <1>1, <1>2
  <2>2. CASE Busy(w, u)
    BY <1>2, <2>1, <2>2 DEF Busy, OnePerUser, At, User
  <2>3. CASE At(w, "idle") /\ rec.pc # "idle"
    BY <1>1, <1>2, <2>3, IdleIs DEF OnePerUser, At, User
  <2> QED  BY <2>2, <2>3
<1>3. rec.pc = "idle" => rec = Idle
  OBVIOUS
<1> DEFINE Kept(x, j) == Books(j, credit'[x], events'[x], paid'[x], received'[x], bought'[x],
                               count'.restart)
           BusyNext(v, x) == job'[v].pc # "idle" /\ job'[v].user = x
<1>4. ASSUME NEW x \in Users, NEW v \in Workers, BusyNext(v, x) PROVE Kept(x, job'[v])
  <2>1. CASE v = w
    BY <1>1, <1>4, <2>1, IdleIs
  <2>2. CASE v # w
    <3>1. x # u /\ job'[v] = job[v]
      BY <1>1, <1>2, <1>4, <2>2
    <3>2. BooksOf(x, job[v])
      BY <1>4, <3>1 DEF Ledger, Busy
    <3> QED  BY <3>1, <3>2 DEF BooksOf
  <2> QED  BY <2>1, <2>2
<1>5. ASSUME NEW x \in Users, \A v \in Workers : ~BusyNext(v, x) PROVE Kept(x, Idle)
  <2>1. CASE x = u
    BY <1>1, <1>3, <1>5, <2>1
  <2>2. CASE x # u
    <3>1. \A v \in Workers : ~Busy(v, x)
      BY <1>1, <1>5, <2>2 DEF Busy, At
    <3>2. BooksOf(x, Idle)
      BY <3>1 DEF Ledger
    <3> QED  BY <2>2, <3>2 DEF BooksOf
  <2> QED  BY <2>1, <2>2
<1> QED  BY <1>4, <1>5 DEF Ledger, BooksOf, Busy

-----------------------------------------------------------------------------
(* Every step keeps the books.                                              *)

\* A job that moves on keeps its user.
LEMMA KeepsUser ==
    ASSUME NEW j \in Job, NEW pc \in PCs
    PROVE  [j EXCEPT !.pc = pc].pc = pc /\ [j EXCEPT !.pc = pc].user = j.user
BY DEF Job

\* The usual case: only the job changes.
LEMMA QuietOwn ==
    ASSUME IInv, Ledger, OnePerUser, OnePerUser', NEW w \in Workers, NEW u, u = User(w),
           job[w].pc # "idle", UNCHANGED <<stores, received, bought, count>>,
           NEW rec, Go(w, rec), rec = Idle \/ (rec.pc # "idle" /\ rec.user = u),
           Books(rec, credit[u], events[u], paid[u], received[u], bought[u], count.restart)
    PROVE  Ledger'
<1>1. u \in Users /\ Busy(w, u)
  BY AtWork
<1>2. /\ credit' = credit /\ events' = events /\ paid' = paid /\ received' = received
      /\ bought' = bought /\ count' = count
  BY DEF stores
<1>3. Books(rec, credit'[u], events'[u], paid'[u], received'[u], bought'[u], count'.restart)
  BY <1>2
<1> QED  BY <1>1, <1>2, <1>3, OwnStep

\* Another job than the delivery itself starts, or the delivery is new.
LEMMA FreshOwn ==
    ASSUME IInv, Ledger, OnePerUser, OnePerUser', NEW w \in Workers, NEW u \in Users,
           At(w, "idle"), UNCHANGED <<stores, received, bought>>, count'.restart = count.restart,
           NEW rec, Go(w, rec), rec.pc # "idle" /\ rec.user = u,
           Books(rec, credit[u], events[u], paid[u], received[u], bought[u], count.restart)
    PROVE  Ledger'
<1>1. /\ credit' = credit /\ events' = events /\ paid' = paid /\ received' = received
      /\ bought' = bought
  BY DEF stores
<1>2. Books(rec, credit'[u], events'[u], paid'[u], received'[u], bought'[u], count'.restart)
  BY <1>1
<1> QED  BY <1>1, <1>2, OwnStep

\* Nobody's work changes.
LEMMA SameLedger ==
    ASSUME Ledger, UNCHANGED <<stores, received, bought>>, count'.restart = count.restart,
           \A v \in Workers : job'[v] = job[v] \/ (job[v].pc = "idle" /\ job'[v].pc = "idle")
    PROVE  Ledger'
<1>1. /\ credit' = credit /\ events' = events /\ paid' = paid /\ received' = received
      /\ bought' = bought
  BY DEF stores
<1> DEFINE Kept(x, j) == Books(j, credit'[x], events'[x], paid'[x], received'[x], bought'[x],
                               count'.restart)
           BusyNext(v, x) == job'[v].pc # "idle" /\ job'[v].user = x
<1>2. ASSUME NEW x \in Users, NEW j, BooksOf(x, j) PROVE Kept(x, j)
  BY <1>1, <1>2 DEF BooksOf
<1>3. ASSUME NEW x \in Users, NEW v \in Workers
      PROVE  (BusyNext(v, x) <=> Busy(v, x)) /\ (Busy(v, x) => job'[v] = job[v])
  BY DEF Busy
<1> HIDE DEF Kept, BusyNext
<1>4. ASSUME NEW x \in Users
      PROVE  /\ \A v \in Workers : BusyNext(v, x) => Kept(x, job'[v])
             /\ (\A v \in Workers : ~BusyNext(v, x)) => Kept(x, Idle)
  BY <1>2, <1>3 DEF Ledger
<1> QED  BY <1>4 DEF Ledger, BooksOf, Busy, Kept, BusyNext

LEMMA DeliverLedger ==
    ASSUME IInv, Ledger, OnePerUser, OnePerUser', NEW w \in Workers, NEW tx \in Txs, NEW exact \in BOOLEAN,
           Deliver(w, tx, exact)
    PROVE  Ledger'
<1> DEFINE u == TxUser[tx]
           rec == [Idle EXCEPT !.pc = "save", !.tx = tx, !.user = u]
<1>1. count'.restart = count.restart
  BY DEF Deliver, IInv, OtherTypes, Count
<1>2. CASE Known(tx, exact)
  <2>1. At(w, "idle") /\ Go(w, Idle) /\ UNCHANGED <<stores, received, bought>>
    BY <1>2 DEF Deliver
  <2>2. \A v \in Workers : job'[v] = job[v] \/ (job[v].pc = "idle" /\ job'[v].pc = "idle")
    BY <2>1, IdleIs DEF Go, At, IInv, JobsOK
  <2> QED  BY <1>1, <2>1, <2>2, SameLedger
<1>3. CASE ~Known(tx, exact)
  <2>1. At(w, "idle") /\ Go(w, rec) /\ UNCHANGED <<stores, received, bought>> /\ u \in Users
    BY <1>3, TxAssumption DEF Deliver
  <2>2. rec.pc # "idle" /\ rec.user = u
    BY DEF Idle
  <2>3. Books(Idle, credit[u], events[u], paid[u], received[u], bought[u], count.restart)
    BY <2>1, <2>2, Starts
  <2>4. Books(rec, credit[u], events[u], paid[u], received[u], bought[u], count.restart)
    BY <2>3, FreshBooks
  <2> QED  BY <1>1, <2>1, <2>2, <2>4, FreshOwn
<1> QED  BY <1>2, <1>3

LEMMA UploadLedger ==
    ASSUME IInv, Ledger, OnePerUser, OnePerUser', NEW w \in Workers, NEW u \in Users, Upload(w, u)
    PROVE  Ledger'
<1> DEFINE rec == [Idle EXCEPT !.pc = "drop", !.stage = "usage", !.user = u,
                               !.ev = [Head(events[u]) EXCEPT !.used = @ + 1]]
<1>1. /\ At(w, "idle") /\ Go(w, rec) /\ UNCHANGED <<stores, received, bought>>
      /\ events[u] # <<>> /\ month \in Nat
  BY DEF Upload, IInv, OtherTypes
<1>2. count'.restart = count.restart
  BY DEF Upload, IInv, OtherTypes, Count
<1>3. rec.pc # "idle" /\ rec.user = u
  BY DEF Idle
<1>4. /\ Typed(Idle, credit[u], events[u], paid[u], received[u], bought[u], count.restart)
      /\ Books(Idle, credit[u], events[u], paid[u], received[u], bought[u], count.restart)
  BY <1>1, <1>3, Starts
<1>5. Books(rec, credit[u], events[u], paid[u], received[u], bought[u], count.restart)
  BY <1>1, <1>4, RewrittenBooks
<1> QED  BY <1>1, <1>2, <1>3, <1>5, FreshOwn

LEMMA LoginLedger ==
    ASSUME IInv, Ledger, OnePerUser, OnePerUser', NEW w \in Workers, NEW u \in Users, Login(w, u)
    PROVE  Ledger'
<1> DEFINE rec == [Idle EXCEPT !.pc = "sign", !.stage = "usage", !.user = u, !.ev = FirstEvent]
<1>1. /\ At(w, "idle") /\ Go(w, rec) /\ UNCHANGED <<stores, received, bought>>
      /\ events[u] = <<>> /\ month \in Nat
  BY DEF Login, IInv, OtherTypes
<1>2. count'.restart = count.restart
  BY DEF Login, IInv, OtherTypes, Count
<1>3. rec.pc # "idle" /\ rec.user = u
  BY DEF Idle
<1>4. /\ Typed(Idle, credit[u], events[u], paid[u], received[u], bought[u], count.restart)
      /\ Books(Idle, credit[u], events[u], paid[u], received[u], bought[u], count.restart)
  BY <1>1, <1>3, Starts
<1>5. Books(rec, credit[u], events[u], paid[u], received[u], bought[u], count.restart)
  BY <1>1, <1>4, RewrittenBooks
<1> QED  BY <1>1, <1>2, <1>3, <1>5, FreshOwn

LEMMA ReadBackLedger ==
    ASSUME IInv, Ledger, OnePerUser, OnePerUser', NEW w \in Workers, NEW u \in Users,
           ReadBack(w, u)
    PROVE  Ledger'
<1> DEFINE rec == [Idle EXCEPT !.pc = "sign", !.stage = "usage", !.user = u,
                               !.ev = Expected(Head(events[u]))]
<1>1. /\ At(w, "idle") /\ Go(w, rec) /\ UNCHANGED <<stores, received, bought>>
      /\ events[u] # <<>> /\ month \in Nat
  BY DEF ReadBack, IInv, OtherTypes
<1>2. count'.restart = count.restart
  BY DEF ReadBack, IInv, OtherTypes, Count
<1>3. rec.pc # "idle" /\ rec.user = u
  BY DEF Idle
<1>4. /\ Typed(Idle, credit[u], events[u], paid[u], received[u], bought[u], count.restart)
      /\ Books(Idle, credit[u], events[u], paid[u], received[u], bought[u], count.restart)
  BY <1>1, <1>3, Starts
<1>5. Books(rec, credit[u], events[u], paid[u], received[u], bought[u], count.restart)
  BY <1>1, <1>4, RewrittenBooks
<1> QED  BY <1>1, <1>2, <1>3, <1>5, FreshOwn

LEMMA RejectAmountLedger ==
    ASSUME IInv, Ledger, OnePerUser, OnePerUser', NEW w \in Workers, RejectAmount(w)
    PROVE  Ledger'
<1> DEFINE j == job[w]
           u == User(w)
<1>1. j.pc = "total" /\ UNCHANGED <<stores, received, bought, count>>
  BY DEF RejectAmount, At
<1>2. /\ j \in Job /\ j.user = u /\ JobInv(j, bought)
      /\ Typed(j, credit[u], events[u], paid[u], received[u], bought[u], count.restart)
      /\ Books(j, credit[u], events[u], paid[u], received[u], bought[u], count.restart)
  BY <1>1, AtWork DEF Typed
<1>3. Books(Idle, credit[u], events[u], paid[u], received[u], bought[u], count.restart)
  BY <1>1, <1>2, EndBooks
<1>4. Go(w, Idle)
  BY DEF RejectAmount
<1> QED  BY <1>1, <1>3, <1>4, QuietOwn

LEMMA RefreshLedger ==
    ASSUME IInv, Ledger, OnePerUser, OnePerUser', NEW w \in Workers, Refresh(w)
    PROVE  Ledger'
<1> DEFINE j == job[w]
           u == User(w)
<1>1. j.pc = "refresh" /\ UNCHANGED <<stores, received, bought, count>>
  BY DEF Refresh, At
<1>2. /\ j \in Job /\ j.user = u /\ JobInv(j, bought)
      /\ Typed(j, credit[u], events[u], paid[u], received[u], bought[u], count.restart)
      /\ Books(j, credit[u], events[u], paid[u], received[u], bought[u], count.restart)
  BY <1>1, AtWork DEF Typed
<1> DEFINE end == [j EXCEPT !.pc = "notify"]
           write == [j EXCEPT !.pc = "drop", !.stage = "refresh", !.ev = Head(events[u])]
<1>3. Go(w, IF events[u] = <<>> THEN end ELSE write)
  BY DEF Refresh
<1>4. /\ events[u] = <<>> =>
           Books(end, credit[u], events[u], paid[u], received[u], bought[u], count.restart)
      /\ events[u] # <<>> =>
           Books(write, credit[u], events[u], paid[u], received[u], bought[u], count.restart)
  BY <1>1, <1>2, RefreshBooks
<1>5. /\ end.pc # "idle" /\ end.user = u
      /\ write.pc # "idle" /\ write.user = u
  BY <1>2 DEF Job
<1> HIDE DEF end, write
<1>6. CASE events[u] = <<>>
  BY <1>1, <1>3, <1>4, <1>5, <1>6, QuietOwn
<1>7. CASE events[u] # <<>>
  BY <1>1, <1>3, <1>4, <1>5, <1>7, QuietOwn
<1> QED  BY <1>6, <1>7

LEMMA ReadLedger ==
    ASSUME IInv, Ledger, OnePerUser, OnePerUser', NEW w \in Workers, Read(w)
    PROVE  Ledger'
<1> DEFINE j == job[w]
           u == User(w)
<1>1. j.pc = "read" /\ UNCHANGED <<stores, received, bought, count>>
  BY DEF Read, At
<1>2. /\ j \in Job /\ j.user = u /\ JobInv(j, bought)
      /\ Typed(j, credit[u], events[u], paid[u], received[u], bought[u], count.restart)
      /\ Books(j, credit[u], events[u], paid[u], received[u], bought[u], count.restart)
  BY <1>1, AtWork DEF Typed
<1> DEFINE a == j.rem + j.seen
           high == BuyHigh(j, Head(events[u]), a)
           one == BuyOne(j, Head(events[u]), a)
<1>3. Go(w, IF events[u] = <<>> THEN Idle ELSE IF AboveHighest(a) THEN high ELSE one)
  BY DEF Read, Funds, Purchase
<1>4. ~AboveHighest(a) => Affordable(a) # {}
  BY <1>1, <1>2 DEF JobInv, Payable
<1>5. high.pc = "drop" /\ high.user = u /\ one.pc = "drop" /\ one.user = u
  BY <1>2 DEF Job, BuyHigh, BuyOne
<1>6. CASE events[u] = <<>>
  <2>1. Books(Idle, credit[u], events[u], paid[u], received[u], bought[u], count.restart)
    BY <1>1, <1>2, <1>6, EndBooks
  <2>2. Go(w, Idle)
    BY <1>3, <1>6
  <2> QED  BY <1>1, <2>1, <2>2, QuietOwn
<1>7. CASE events[u] # <<>> /\ AboveHighest(a)
  <2>1. Books(high, credit[u], events[u], paid[u], received[u], bought[u], count.restart)
    BY <1>1, <1>2, <1>7, BuyHighBooks
  <2> HIDE DEF high
  <2>2. Go(w, high)
    BY <1>3, <1>7
  <2> QED  BY <1>1, <1>5, <2>1, <2>2, QuietOwn
<1>8. CASE events[u] # <<>> /\ ~AboveHighest(a)
  <2>1. Books(one, credit[u], events[u], paid[u], received[u], bought[u], count.restart)
    BY <1>1, <1>2, <1>4, <1>8, BuyOneBooks
  <2> HIDE DEF one
  <2>2. Go(w, one)
    BY <1>3, <1>8
  <2> QED  BY <1>1, <1>5, <2>1, <2>2, QuietOwn
<1> QED  BY <1>6, <1>7, <1>8

LEMMA SignLedger ==
    ASSUME IInv, Ledger, OnePerUser, OnePerUser', NEW w \in Workers, Sign(w)
    PROVE  Ledger'
<1> DEFINE j == job[w]
           u == User(w)
<1>1. j.pc = "sign" /\ UNCHANGED <<stores, received, bought, count>>
  BY DEF Sign, At
<1>2. /\ j \in Job /\ j.user = u /\ JobInv(j, bought)
      /\ Typed(j, credit[u], events[u], paid[u], received[u], bought[u], count.restart)
      /\ Books(j, credit[u], events[u], paid[u], received[u], bought[u], count.restart)
  BY <1>1, AtWork DEF Typed
<1> DEFINE rec == [j EXCEPT !.pc = "store", !.ev.credit = credit[u]]
<1>3. Go(w, rec)
  BY DEF Sign
<1>4. Books(rec, credit[u], events[u], paid[u], received[u], bought[u], count.restart)
  BY <1>1, <1>2, SignBooks
<1>5. rec.pc # "idle" /\ rec.user = u
  BY <1>2 DEF Job
<1> HIDE DEF rec
<1> QED  BY <1>1, <1>3, <1>4, <1>5, QuietOwn

LEMMA CascadeLedger ==
    ASSUME IInv, Ledger, OnePerUser, OnePerUser', NEW w \in Workers, Cascade(w), ValidTiers
    PROVE  Ledger'
<1> DEFINE j == job[w]
           u == User(w)
<1>1. j.pc = "cascade" /\ UNCHANGED <<stores, received, bought, count>>
  BY DEF Cascade, At
<1>2. /\ j \in Job /\ j.user = u /\ JobInv(j, bought)
      /\ Typed(j, credit[u], events[u], paid[u], received[u], bought[u], count.restart)
      /\ Books(j, credit[u], events[u], paid[u], received[u], bought[u], count.restart)
  BY <1>1, AtWork DEF Typed
<1> DEFINE t == Best(InReach(j))
           take == Take(j, t)
           extra == [j EXCEPT !.pc = "drop", !.stage = "extra"]
           settled == [j EXCEPT !.pc = Settle(j)]
<1>3. Go(w, IF InReach(j) # {} THEN take ELSE IF j.ev.total > j.base THEN extra ELSE settled)
  BY DEF Cascade
<1>4. CASE InReach(j) # {}
  <2>1. InReach(j) \in SUBSET Tiers
    BY <1>2 DEF InReach, Job, Pool
  <2>2. t \in InReach(j)
    BY <1>4, <2>1, BestIsDearest
  <2>3. Books(take, credit[u], events[u], paid[u], received[u], bought[u], count.restart)
    BY <1>1, <1>2, <2>2, TakeBooks
  <2>4. take.pc # "idle" /\ take.user = u
    BY <1>1, <1>2 DEF Job, Take
  <2> HIDE DEF take
  <2> QED  BY <1>1, <1>3, <1>4, <2>3, <2>4, QuietOwn
<1>5. CASE InReach(j) = {} /\ j.ev.total > j.base
  <2>1. Books(extra, credit[u], events[u], paid[u], received[u], bought[u], count.restart)
    BY <1>1, <1>2, ExtraBooks
  <2>2. extra.pc # "idle" /\ extra.user = u
    BY <1>2 DEF Job
  <2> HIDE DEF extra
  <2> QED  BY <1>1, <1>3, <1>5, <2>1, <2>2, QuietOwn
<1>6. CASE InReach(j) = {} /\ ~(j.ev.total > j.base)
  <2>1. Books(settled, credit[u], events[u], paid[u], received[u], bought[u], count.restart)
    BY <1>1, <1>2, <1>6, SettleBooks
  <2>2. settled.pc # "idle" /\ settled.user = u
    BY <1>2 DEF Job, Settle
  <2> HIDE DEF settled
  <2> QED  BY <1>1, <1>3, <1>6, <2>1, <2>2, QuietOwn
<1> QED  BY <1>4, <1>5, <1>6

LEMMA ApplyLedger ==
    ASSUME IInv, Ledger, OnePerUser, OnePerUser', NEW w \in Workers, Apply(w)
    PROVE  Ledger'
<1> DEFINE j == job[w]
           u == User(w)
<1>1. j.pc = "apply" /\ UNCHANGED <<stores, received, bought, count>>
  BY DEF Apply, At
<1>2. /\ j \in Job /\ j.user = u /\ JobInv(j, bought)
      /\ Typed(j, credit[u], events[u], paid[u], received[u], bought[u], count.restart)
      /\ Books(j, credit[u], events[u], paid[u], received[u], bought[u], count.restart)
  BY <1>1, AtWork DEF Typed
<1> DEFINE c == credit[u]
           end == [j EXCEPT !.pc = "final"]
           buy == BuyOnCredit(j, Best(Affordable(c)), c)
<1>3. Go(w, IF Affordable(c) = {} THEN end ELSE buy)
  BY DEF Apply
<1>4. /\ Affordable(c) = {} =>
           Books(end, credit[u], events[u], paid[u], received[u], bought[u], count.restart)
      /\ Affordable(c) # {} =>
           Books(buy, credit[u], events[u], paid[u], received[u], bought[u], count.restart)
  BY <1>1, <1>2, ApplyBooks
<1>5. /\ end.pc # "idle" /\ end.user = u
      /\ buy.pc # "idle" /\ buy.user = u
  BY <1>2 DEF Job, BuyOnCredit
<1> HIDE DEF end, buy
<1>6. CASE Affordable(c) = {}
  BY <1>1, <1>3, <1>4, <1>5, <1>6, QuietOwn
<1>7. CASE Affordable(c) # {}
  BY <1>1, <1>3, <1>4, <1>5, <1>7, QuietOwn
<1> QED  BY <1>6, <1>7

LEMMA FinalLedger ==
    ASSUME IInv, Ledger, OnePerUser, OnePerUser', NEW w \in Workers, Final(w)
    PROVE  Ledger'
<1> DEFINE j == job[w]
           u == User(w)
<1>1. j.pc = "final" /\ UNCHANGED <<stores, received, bought, count>>
  BY DEF Final, At
<1>2. /\ j \in Job /\ j.user = u /\ JobInv(j, bought)
      /\ Typed(j, credit[u], events[u], paid[u], received[u], bought[u], count.restart)
      /\ Books(j, credit[u], events[u], paid[u], received[u], bought[u], count.restart)
  BY <1>1, AtWork DEF Typed
<1> DEFINE end == [j EXCEPT !.pc = "notify"]
           write == [j EXCEPT !.pc = "drop", !.stage = "final", !.ev.tier = j.tier]
<1>3. Go(w, write) \/ Go(w, end)
  BY DEF Final
<1>4. /\ Books(end, credit[u], events[u], paid[u], received[u], bought[u], count.restart)
      /\ Books(write, credit[u], events[u], paid[u], received[u], bought[u], count.restart)
  BY <1>1, <1>2, FinalBooks
<1>5. /\ end.pc # "idle" /\ end.user = u
      /\ write.pc # "idle" /\ write.user = u
  BY <1>2 DEF Job
<1> HIDE DEF end, write
<1>6. CASE Go(w, end)
  BY <1>1, <1>4, <1>5, <1>6, QuietOwn
<1>7. CASE Go(w, write)
  BY <1>1, <1>4, <1>5, <1>7, QuietOwn
<1> QED  BY <1>3, <1>6, <1>7

LEMMA SaveLedger ==
    ASSUME IInv, Ledger, OnePerUser, OnePerUser', NEW w \in Workers, Save(w)
    PROVE  Ledger'
<1> DEFINE j == job[w]
           u == User(w)
           rec == [j EXCEPT !.pc = "total"]
<1>1. j.pc = "save" /\ j.pc # "idle"
  BY DEF Save, At
<1>2. /\ u \in Users /\ Busy(w, u) /\ j \in Job /\ j.user = u /\ JobInv(j, bought)
      /\ Typed(j, credit[u], events[u], paid[u], received[u], bought[u], count.restart)
      /\ Books(j, credit[u], events[u], paid[u], received[u], bought[u], count.restart)
  BY <1>1, AtWork DEF Typed
<1>3. Go(w, rec)
  BY DEF Save
<1>4. /\ credit' = credit /\ events' = events /\ paid' = paid /\ received' = received
      /\ bought' = bought /\ count' = count
  BY DEF Save, stores
<1>5. Books(rec, credit[u], events[u], paid[u], received[u], bought[u], count.restart)
  BY <1>1, <1>2, SaveBooks
<1>6. rec = Idle \/ (rec.pc # "idle" /\ rec.user = u)
  BY <1>2 DEF Job
<1> HIDE DEF rec, j, u
<1>7. Books(rec, credit'[u], events'[u], paid'[u], received'[u], bought'[u], count'.restart)
  BY <1>4, <1>5
<1> QED  BY <1>2, <1>3, <1>4, <1>6, <1>7, OwnStep

LEMMA NotifyLedger ==
    ASSUME IInv, Ledger, OnePerUser, OnePerUser', NEW w \in Workers, Notify(w)
    PROVE  Ledger'
<1> DEFINE j == job[w]
           u == User(w)
           rec == Idle
<1>1. j.pc = "notify" /\ j.pc # "idle"
  BY DEF Notify, At
<1>2. /\ u \in Users /\ Busy(w, u) /\ j \in Job /\ j.user = u /\ JobInv(j, bought)
      /\ Typed(j, credit[u], events[u], paid[u], received[u], bought[u], count.restart)
      /\ Books(j, credit[u], events[u], paid[u], received[u], bought[u], count.restart)
  BY <1>1, AtWork DEF Typed
<1>3. Go(w, rec)
  BY DEF Notify
<1>4. /\ credit' = credit /\ events' = events /\ paid' = paid /\ received' = received
      /\ bought' = bought /\ count' = count
  BY DEF Notify, stores
<1>5. Books(rec, credit[u], events[u], paid[u], received[u], bought[u], count.restart)
  BY <1>1, <1>2, EndBooks
<1>6. rec = Idle \/ (rec.pc # "idle" /\ rec.user = u)
  OBVIOUS
<1> HIDE DEF rec, j, u
<1>7. Books(rec, credit'[u], events'[u], paid'[u], received'[u], bought'[u], count'.restart)
  BY <1>4, <1>5
<1> QED  BY <1>2, <1>3, <1>4, <1>6, <1>7, OwnStep

LEMMA BankLedger ==
    ASSUME IInv, Ledger, OnePerUser, OnePerUser', NEW w \in Workers, Bank(w)
    PROVE  Ledger'
<1> DEFINE j == job[w]
           u == User(w)
           rec == [j EXCEPT !.pc = "refresh"]
<1>1. j.pc = "bank" /\ j.pc # "idle"
  BY DEF Bank, At
<1>2. /\ u \in Users /\ Busy(w, u) /\ j \in Job /\ j.user = u /\ JobInv(j, bought)
      /\ Typed(j, credit[u], events[u], paid[u], received[u], bought[u], count.restart)
      /\ Books(j, credit[u], events[u], paid[u], received[u], bought[u], count.restart)
  BY <1>1, AtWork DEF Typed
<1>3. Go(w, rec)
  BY DEF Bank, BankedCredit
<1>4. /\ events' = events /\ paid' = paid /\ received' = received
      /\ bought' = bought /\ count' = count
  BY DEF Bank, stores
<1>5. credit'[u] = (j.seen + j.rem) /\ \A x \in Users \ {u} : credit'[x] = credit[x]
  <2>1. credit' = [credit EXCEPT ![u] = (j.seen + j.rem)] /\ DOMAIN credit = Users
    BY DEF Bank, BankedCredit, IInv, StoreTypes, OtherTypes
  <2> HIDE DEF u
  <2> QED  BY <1>2, <2>1
<1>6. Books(rec, (j.seen + j.rem), events[u], paid[u], received[u], bought[u], count.restart)
  BY <1>1, <1>2, BankBooks
<1>7. rec = Idle \/ (rec.pc # "idle" /\ rec.user = u)
  BY <1>2 DEF Job
<1> HIDE DEF rec, j, u
<1>8. Books(rec, credit'[u], events'[u], paid'[u], received'[u], bought'[u], count'.restart)
  BY <1>4, <1>5, <1>6
<1> QED  BY <1>2, <1>3, <1>4, <1>5, <1>7, <1>8, OwnStep

LEMMA ResetLedger ==
    ASSUME IInv, Ledger, OnePerUser, OnePerUser', NEW w \in Workers, Reset(w)
    PROVE  Ledger'
<1> DEFINE j == job[w]
           u == User(w)
           rec == [j EXCEPT !.pc = "read"]
<1>1. j.pc = "reset" /\ j.pc # "idle"
  BY DEF Reset, At
<1>2. /\ u \in Users /\ Busy(w, u) /\ j \in Job /\ j.user = u /\ JobInv(j, bought)
      /\ Typed(j, credit[u], events[u], paid[u], received[u], bought[u], count.restart)
      /\ Books(j, credit[u], events[u], paid[u], received[u], bought[u], count.restart)
  BY <1>1, AtWork DEF Typed
<1>3. Go(w, rec)
  BY DEF Reset
<1>4. /\ events' = events /\ paid' = paid /\ received' = received
      /\ bought' = bought /\ count' = count
  BY DEF Reset, stores
<1>5. credit'[u] = 0 /\ \A x \in Users \ {u} : credit'[x] = credit[x]
  <2>1. credit' = [credit EXCEPT ![u] = 0] /\ DOMAIN credit = Users
    BY DEF Reset, IInv, StoreTypes, OtherTypes
  <2> HIDE DEF u
  <2> QED  BY <1>2, <2>1
<1>6. Books(rec, 0, events[u], paid[u], received[u], bought[u], count.restart)
  BY <1>1, <1>2, ResetBooks
<1>7. rec = Idle \/ (rec.pc # "idle" /\ rec.user = u)
  BY <1>2 DEF Job
<1> HIDE DEF rec, j, u
<1>8. Books(rec, credit'[u], events'[u], paid'[u], received'[u], bought'[u], count'.restart)
  BY <1>4, <1>5, <1>6
<1> QED  BY <1>2, <1>3, <1>4, <1>5, <1>7, <1>8, OwnStep

LEMMA LeftoverLedger ==
    ASSUME IInv, Ledger, OnePerUser, OnePerUser', NEW w \in Workers, Leftover(w)
    PROVE  Ledger'
<1> DEFINE j == job[w]
           u == User(w)
           rec == [j EXCEPT !.pc = "apply"]
<1>1. j.pc = "leftover" /\ j.pc # "idle"
  BY DEF Leftover, At
<1>2. /\ u \in Users /\ Busy(w, u) /\ j \in Job /\ j.user = u /\ JobInv(j, bought)
      /\ Typed(j, credit[u], events[u], paid[u], received[u], bought[u], count.restart)
      /\ Books(j, credit[u], events[u], paid[u], received[u], bought[u], count.restart)
  BY <1>1, AtWork DEF Typed
<1>3. Go(w, rec)
  BY DEF Leftover
<1>4. /\ events' = events /\ paid' = paid /\ received' = received
      /\ bought' = bought /\ count' = count
  BY DEF Leftover, stores
<1>5. credit'[u] = j.rem /\ \A x \in Users \ {u} : credit'[x] = credit[x]
  <2>1. credit' = [credit EXCEPT ![u] = j.rem] /\ DOMAIN credit = Users
    BY DEF Leftover, IInv, StoreTypes, OtherTypes
  <2> HIDE DEF u
  <2> QED  BY <1>2, <2>1
<1>6. Books(rec, j.rem, events[u], paid[u], received[u], bought[u], count.restart)
  BY <1>1, <1>2, LeftoverBooks
<1>7. rec = Idle \/ (rec.pc # "idle" /\ rec.user = u)
  BY <1>2 DEF Job
<1> HIDE DEF rec, j, u
<1>8. Books(rec, credit'[u], events'[u], paid'[u], received'[u], bought'[u], count'.restart)
  BY <1>4, <1>5, <1>6
<1> QED  BY <1>2, <1>3, <1>4, <1>5, <1>7, <1>8, OwnStep

LEMMA ChargeLedger ==
    ASSUME IInv, Ledger, OnePerUser, OnePerUser', NEW w \in Workers, Charge(w)
    PROVE  Ledger'
<1> DEFINE j == job[w]
           u == User(w)
           rec == [j EXCEPT !.pc = AfterCharge(j)]
<1>1. j.pc = "charge" /\ j.pc # "idle"
  BY DEF Charge, At
<1>2. /\ u \in Users /\ Busy(w, u) /\ j \in Job /\ j.user = u /\ JobInv(j, bought)
      /\ Typed(j, credit[u], events[u], paid[u], received[u], bought[u], count.restart)
      /\ Books(j, credit[u], events[u], paid[u], received[u], bought[u], count.restart)
  BY <1>1, AtWork DEF Typed
<1>3. Price[j.ev.tier] <= j.seen
  BY <1>1, <1>2 DEF JobInv
<1>4. Go(w, rec)
  BY DEF Charge
<1>5. /\ events' = events /\ paid' = paid /\ received' = received
      /\ bought' = bought /\ count' = count
  BY DEF Charge, stores
<1>6. credit'[u] = Remaining(j) /\ \A x \in Users \ {u} : credit'[x] = credit[x]
  <2>1. credit' = [credit EXCEPT ![u] = Remaining(j)] /\ DOMAIN credit = Users
    BY DEF Charge, IInv, StoreTypes, OtherTypes
  <2> HIDE DEF u
  <2> QED  BY <1>2, <2>1
<1>7. Books(rec, Remaining(j), events[u], paid[u], received[u], bought[u], count.restart)
  BY <1>1, <1>2, <1>3, ChargeBooks
<1>8. rec = Idle \/ (rec.pc # "idle" /\ rec.user = u)
  BY <1>2 DEF Job, AfterCharge
<1> HIDE DEF rec, j, u
<1>9. Books(rec, credit'[u], events'[u], paid'[u], received'[u], bought'[u], count'.restart)
  BY <1>5, <1>6, <1>7
<1> QED  BY <1>2, <1>4, <1>5, <1>6, <1>8, <1>9, OwnStep

LEMMA DropLedger ==
    ASSUME IInv, Ledger, OnePerUser, OnePerUser', NEW w \in Workers, Drop(w) \/ Delete(w)
    PROVE  Ledger'
<1> DEFINE j == job[w]
           u == User(w)
<1>1. PICK rec : Go(w, rec) /\ Clearing(j, rec)
  BY ClearingSteps
<1>2. j.pc \in {"drop", "delete"} /\ j.pc # "idle"
  BY ClearingSteps
<1>3. /\ u \in Users /\ Busy(w, u) /\ j.user = u
      /\ Typed(j, credit[u], events[u], paid[u], received[u], bought[u], count.restart)
      /\ Books(j, credit[u], events[u], paid[u], received[u], bought[u], count.restart)
  BY <1>2, AtWork
<1>4. /\ credit' = credit /\ paid' = paid /\ received' = received
      /\ bought' = bought /\ count' = count /\ \A x \in Users \ {u} : events'[x] = events[x]
  BY ClearingSteps
<1>5. Books(rec, credit[u], events'[u], paid[u], received[u], bought[u], count.restart)
  BY <1>1, <1>2, <1>3, DropBooks
<1>6. rec.pc # "idle" /\ rec.user = u
  BY <1>1, <1>3 DEF Clearing
<1> HIDE DEF j, u
<1>7. Books(rec, credit'[u], events'[u], paid'[u], received'[u], bought'[u], count'.restart)
  BY <1>4, <1>5
<1> QED  BY <1>1, <1>3, <1>4, <1>6, <1>7, OwnStep

LEMMA StoreLedger ==
    ASSUME IInv, Ledger, OnePerUser, OnePerUser', NEW w \in Workers, Store(w)
    PROVE  Ledger'
<1> DEFINE j == job[w]
           u == User(w)
           ev == Made(j.ev, count.made + 1)
           rec == Continue(j, AfterStore(j.stage))
<1>1. j.pc = "store" /\ j.pc # "idle"
  BY DEF Store, At
<1>2. /\ u \in Users /\ Busy(w, u) /\ j \in Job /\ j.user = u /\ JobInv(j, bought)
      /\ Typed(j, credit[u], events[u], paid[u], received[u], bought[u], count.restart)
      /\ Books(j, credit[u], events[u], paid[u], received[u], bought[u], count.restart)
  BY <1>1, AtWork DEF Typed
<1>3. Go(w, rec)
  BY DEF Store
<1>4. /\ credit' = credit /\ paid' = paid /\ received' = received
      /\ count'.restart = count.restart
  BY DEF Store, IInv, OtherTypes, Count
<1>5. events'[u] = (<<ev>> \o events[u]) /\ \A x \in Users \ {u} : events'[x] = events[x]
  <2>1. events' = [events EXCEPT ![u] = (<<ev>> \o events[u])] /\ DOMAIN events = Users
    BY DEF Store, IInv, StoreTypes, OtherTypes
  <2> HIDE DEF u
  <2> QED  BY <1>2, <2>1
<1>6. bought'[u] = Sum(bought[u], j.cart) /\ \A x \in Users \ {u} : bought'[x] = bought[x]
  <2>1. bought' = [bought EXCEPT ![u] = Sum(bought[u], j.cart)] /\ DOMAIN bought = Users
    BY DEF Store, IInv, StoreTypes, OtherTypes
  <2> HIDE DEF u
  <2> QED  BY <1>2, <2>1
<1>7. Books(rec, credit[u], (<<ev>> \o events[u]), paid[u], received[u], Sum(bought[u], j.cart),
                 count.restart)
  <2>1. j.ev \in Event /\ count.made \in Nat
    BY <1>2 DEF Job, IInv, OtherTypes, Count
  <2>2. ev \in Event /\ ev.total = j.ev.total /\ ev.exp = j.ev.exp
    BY <2>1 DEF Made, Event
  <2> HIDE DEF ev
  <2> QED  BY <1>1, <1>2, <2>2, StoreBooks
<1>8. rec = Idle \/ (rec.pc # "idle" /\ rec.user = u)
  BY <1>2 DEF Job, Continue
<1> HIDE DEF rec, j, u, ev
<1>9. Books(rec, credit'[u], events'[u], paid'[u], received'[u], bought'[u], count'.restart)
  BY <1>4, <1>5, <1>6, <1>7
<1> QED  BY <1>2, <1>3, <1>4, <1>5, <1>6, <1>8, <1>9, OwnStep

LEMMA RecordPaidLedger ==
    ASSUME IInv, Ledger, OnePerUser, OnePerUser', NEW w \in Workers, RecordPaid(w)
    PROVE  Ledger'
<1> DEFINE j == job[w]
           u == User(w)
           rec == [j EXCEPT !.pc = AfterPaid(j)]
<1>1. j.pc = "paid" /\ j.pc # "idle"
  BY DEF RecordPaid, At
<1>2. /\ u \in Users /\ Busy(w, u) /\ j \in Job /\ j.user = u /\ JobInv(j, bought)
      /\ Typed(j, credit[u], events[u], paid[u], received[u], bought[u], count.restart)
      /\ Books(j, credit[u], events[u], paid[u], received[u], bought[u], count.restart)
  BY <1>1, AtWork DEF Typed
<1>3. Go(w, rec)
  BY DEF RecordPaid
<1>4. /\ credit' = credit /\ events' = events /\ received' = received
      /\ bought' = bought /\ count' = count
  BY DEF RecordPaid, stores
<1>5. paid'[u] = PaidRecord(j) /\ \A x \in Users \ {u} : paid'[x] = paid[x]
  <2>1. paid' = [paid EXCEPT ![u] = PaidRecord(j)] /\ DOMAIN paid = Users
    BY DEF RecordPaid, IInv, StoreTypes, OtherTypes
  <2> HIDE DEF u
  <2> QED  BY <1>2, <2>1
<1>6. Books(rec, credit[u], events[u], PaidRecord(j), received[u], bought[u], count.restart)
  BY <1>1, <1>2, PaidBooks
<1>7. rec = Idle \/ (rec.pc # "idle" /\ rec.user = u)
  BY <1>2 DEF Job, AfterPaid, Settle
<1> HIDE DEF rec, j, u
<1>8. Books(rec, credit'[u], events'[u], paid'[u], received'[u], bought'[u], count'.restart)
  BY <1>4, <1>5, <1>6
<1> QED  BY <1>2, <1>3, <1>4, <1>5, <1>7, <1>8, OwnStep

LEMMA TotalLedger ==
    ASSUME IInv, Ledger, OnePerUser, OnePerUser', NEW w \in Workers, Total(w)
    PROVE  Ledger'
<1> DEFINE j == job[w]
           u == User(w)
           sats == TxSats[j.tx]
           rec == [j EXCEPT !.pc = Decision(sats + credit[u], credit[u]), !.seen = credit[u],
                          !.rem = sats]
<1>1. j.pc = "total" /\ j.pc # "idle"
  BY DEF Total, At
<1>2. /\ u \in Users /\ Busy(w, u) /\ j \in Job /\ j.user = u /\ JobInv(j, bought)
      /\ Typed(j, credit[u], events[u], paid[u], received[u], bought[u], count.restart)
      /\ Books(j, credit[u], events[u], paid[u], received[u], bought[u], count.restart)
  BY <1>1, AtWork DEF Typed
<1>3. sats \in Nat
  <2>1. j.stage # "usage"
    BY <1>1, <1>2 DEF JobInv, Writing
  <2> QED  BY <1>1, <1>2, <2>1, TxAssumption DEF JobInv
<1>4. Go(w, rec)
  BY DEF Total
<1>5. credit' = credit /\ events' = events /\ paid' = paid /\ bought' = bought /\ count' = count
  BY DEF Total, stores
<1>6. received'[u] = (received[u] + sats) /\ \A x \in Users \ {u} : received'[x] = received[x]
  <2>1. received' = [received EXCEPT ![u] = (received[u] + sats)] /\ DOMAIN received = Users
    BY DEF Total, IInv, StoreTypes, OtherTypes
  <2> HIDE DEF u
  <2> QED  BY <1>2, <2>1
<1>7. Books(rec, credit[u], events[u], paid[u], (received[u] + sats), bought[u], count.restart)
  BY <1>1, <1>2, <1>3, TotalBooks
<1>8. rec = Idle \/ (rec.pc # "idle" /\ rec.user = u)
  BY <1>2 DEF Job, Decision
<1> HIDE DEF rec, j, u
<1>9. Books(rec, credit'[u], events'[u], paid'[u], received'[u], bought'[u], count'.restart)
  BY <1>5, <1>6, <1>7
<1> QED  BY <1>2, <1>4, <1>5, <1>6, <1>8, <1>9, OwnStep

\* The first event is worth the free tier; nothing was received or sold.
LEMMA InitLedger == ASSUME Init PROVE Ledger
<1> SUFFICES ASSUME NEW u \in Users PROVE BooksOf(u, Idle)
  BY IdleIs DEF Ledger, Busy, Init
<1>1. /\ credit[u] = 0 /\ events[u] = <<FirstEvent>> /\ paid[u] = NoPaid /\ received[u] = 0
      /\ bought[u] = Nothing /\ count.restart = 0
  BY DEF Init
<1>2. /\ events[u] # <<>> /\ Head(events[u]) = FirstEvent
      /\ FirstEvent.total = Bytes[FreeTier] /\ Bytes[FreeTier] \in Nat
  BY <1>1, TierTypes DEF FirstEvent
<1>3. Balance(0, 0, 0, Nothing, 0)
  <2>1. Allowance(0) \in Nat
    BY AllowanceType
  <2> QED  BY <2>1, NothingIs DEF Balance
<1>4. Carries(Idle)  BY IdleIs DEF Carries
<1>5. Money(Idle, 0, 0, Nothing, 0)  BY <1>3, IdleIs, NothingAffordable DEF Money
<1>6. Storage(Idle, events[u], NoPaid, Nothing)
  <2>1. Promised(FirstEvent.total, Nothing.bytes)
    BY <1>2, NothingIs DEF Promised
  <2> QED  BY <1>2, <2>1, IdleIs DEF Storage, Recorded
<1> QED  BY <1>1, <1>4, <1>5, <1>6 DEF BooksOf, Books

LEMMA RestartLedger == ASSUME IInv, Ledger, Restart PROVE Ledger'
<1>1. /\ credit' = credit /\ events' = events /\ paid' = paid /\ received' = received
      /\ bought' = bought
  BY DEF Restart, stores
<1>2. count'.restart = count.restart + 1
  BY DEF Restart, IInv, OtherTypes, Count
<1>3. \A v \in Workers : job'[v] = Idle
  BY DEF Restart
<1>4. ASSUME NEW u \in Users
      PROVE  Books(Idle, credit[u], events[u], paid[u], received[u], bought[u],
                   count.restart + 1)
  <2>1. ASSUME NEW w \in Workers, Busy(w, u)
        PROVE  Books(Idle, credit[u], events[u], paid[u], received[u], bought[u],
                     count.restart + 1)
    <3>1. BooksOf(u, job[w])
      BY <2>1 DEF Ledger
    <3> QED  BY <3>1, TypedFacts, CrashBooks DEF BooksOf
  <2>2. ASSUME \A w \in Workers : ~Busy(w, u)
        PROVE  Books(Idle, credit[u], events[u], paid[u], received[u], bought[u],
                     count.restart + 1)
    <3>1. BooksOf(u, Idle)
      BY <2>2 DEF Ledger
    <3> QED  BY <3>1, TypedFacts, CrashBooks DEF BooksOf
  <2> QED  BY <2>1, <2>2
<1> QED  BY <1>1, <1>2, <1>3, <1>4, IdleIs DEF Ledger, BooksOf, Busy

LEMMA NextLedger ==
    ASSUME ValidTiers, IInv, Ledger, OnePerUser, OnePerUser', [Next]_vars
    PROVE  Ledger'
<1>1. ASSUME NEW w \in Workers, NEW tx \in Txs, NEW exact \in BOOLEAN,
             Deliver(w, tx, exact)
      PROVE  Ledger'
  BY <1>1, DeliverLedger
<1>2. ASSUME NEW w \in Workers, Step(w) PROVE Ledger'
  BY <1>2, SaveLedger, TotalLedger, RejectAmountLedger, BankLedger, RefreshLedger, ResetLedger,
     ReadLedger, DropLedger, SignLedger, StoreLedger, RecordPaidLedger, CascadeLedger,
     LeftoverLedger, ApplyLedger, ChargeLedger, FinalLedger, NotifyLedger DEF Step
<1>3. ASSUME NEW w \in Workers, NEW u \in Users, Upload(w, u) \/ Login(w, u) \/ ReadBack(w, u)
      PROVE  Ledger'
  BY <1>3, UploadLedger, LoginLedger, ReadBackLedger
<1>4. CASE Tick
  BY <1>4, SameLedger DEF Tick
<1>5. CASE Restart
  BY <1>5, RestartLedger
<1>6. CASE UNCHANGED vars
  BY <1>6, SameLedger DEF vars, stores
<1> QED
  BY <1>1, <1>2, <1>3, <1>4, <1>5, <1>6 DEF Next

\* The books are kept as long as nobody works for a user somebody works for.
THEOREM BooksKept ==
    ASSUME ValidTiers PROVE Spec /\ []OnePerUser => [](IInv /\ Ledger)
<1>1. Init => IInv /\ Ledger
  BY InitInv, InitLedger
<1>2. IInv /\ Ledger /\ OnePerUser /\ OnePerUser' /\ [Next]_vars => (IInv /\ Ledger)'
  BY NextInv, NextLedger
<1> QED  BY <1>1, <1>2, PTL DEF Spec

\* At rest every user's books are those of an idle job.
LEMMA RestBooks ==
    ASSUME IInv, Ledger, AtRest, NEW u \in Users
    PROVE  /\ Balance(0, credit[u], received[u], bought[u], count.restart)
           /\ count.restart = 0 =>
                /\ Affordable(credit[u]) = {}
                /\ Promised(Head(events[u]).total, bought[u].bytes)
                /\ Recorded(Head(events[u]), paid[u])
           /\ credit[u] \in Nat /\ bought[u].sats \in Nat /\ received[u] \in Nat
           /\ count.restart \in Nat
<1>1. BooksOf(u, Idle)
  BY DEF AtRest, At, Ledger, Busy
<1>2. /\ Balance(0, credit[u], received[u], bought[u], count.restart)
      /\ count.restart = 0 => /\ Affordable(credit[u]) = {}
                              /\ Promised(Head(events[u]).total, bought[u].bytes)
                              /\ Recorded(Head(events[u]), paid[u])
  BY <1>1, IdleIs DEF BooksOf, Books, Money, Storage
<1>3. Typed(Idle, credit[u], events[u], paid[u], received[u], bought[u], count.restart)
  BY TypedFacts
<1> QED  BY <1>2, <1>3, Amounts DEF Typed

\* Every satoshi a user paid is credit or storage when the relay comes to rest,
\* and no credit that could buy a tier is left lying, for any tiers, prices and
\* payments (ProcessPayment, processHighPayment, checkAndApplyCredit), provided
\* a user's goroutines come one after the other: those of different users may
\* interleave at every store access.
THEOREM SatsAddUp ==
    ASSUME ValidTiers PROVE Spec /\ []OnePerUser => []SatsConserved
<1>1. IInv /\ Ledger => SatsConserved
  <2> SUFFICES ASSUME IInv, Ledger, Undisturbed, NEW u \in Users
               PROVE  received[u] = credit[u] + bought[u].sats /\ Affordable(credit[u]) = {}
    BY DEF SatsConserved
  <2>1. AtRest /\ count.restart = 0
    BY DEF Undisturbed
  <2> QED  BY <2>1, RestBooks DEF Balance
<1> QED  BY <1>1, BooksKept, PTL

\* The newest event promises the free tier and all the storage bought since,
\* whatever rewrites it: payments, credit refreshes, uploads, logins and
\* read-backs.
THEOREM StorageIsKept ==
    ASSUME ValidTiers, Measured PROVE Spec /\ []OnePerUser => []StorageAccumulates
<1>1. IInv /\ Ledger => StorageAccumulates
  <2> SUFFICES ASSUME IInv, Ledger, Undisturbed, NEW u \in Users
               PROVE  Head(events[u]).total >= Bytes[FreeTier] + bought[u].bytes
    BY DEF StorageAccumulates
  <2>1. AtRest /\ count.restart = 0
    BY DEF Undisturbed
  <2> QED  BY <2>1, RestBooks DEF Promised
<1> QED  BY <1>1, BooksKept, PTL

\* The paid-subscriber record and the event, written by different store calls,
\* agree on the storage when the relay comes to rest, and the event does not
\* expire first.
THEOREM RecordsStayTogether ==
    ASSUME ValidTiers, Measured PROVE Spec /\ []OnePerUser => []RecordsAgree
<1>1. IInv /\ Ledger => RecordsAgree
  <2> SUFFICES ASSUME IInv, Ledger, Undisturbed, NEW u \in Users, paid[u] # NoPaid
               PROVE  /\ Head(events[u]).total = paid[u].bytes
                      /\ Head(events[u]).exp >= paid[u].exp
    BY DEF RecordsAgree
  <2>1. AtRest /\ count.restart = 0
    BY DEF Undisturbed
  <2> QED  BY <2>1, RestBooks DEF Recorded
<1> QED  BY <1>1, BooksKept, PTL

\* Each crash costs the relay at most one tier: the one that was published on
\* credit and not charged yet (checkAndApplyCredit), wherever the process dies.
THEOREM CrashesAreCheap ==
    ASSUME ValidTiers PROVE Spec /\ []OnePerUser => []CrashCostsOneTier
<1>1. IInv /\ Ledger => CrashCostsOneTier
  <2> SUFFICES ASSUME IInv, Ledger, AtRest, NEW u \in Users
               PROVE  credit[u] + bought[u].sats
                        <= received[u] + count.restart * Price[HighestTier]
    BY DEF CrashCostsOneTier
  <2>1. /\ credit[u] + bought[u].sats + 0 <= received[u] + Allowance(count.restart)
        /\ credit[u] \in Nat /\ bought[u].sats \in Nat
    BY RestBooks DEF Balance
  <2> QED  BY <2>1 DEF Allowance
<1> QED  BY <1>1, BooksKept, PTL

-----------------------------------------------------------------------------
(* A transaction is recorded once.                                          *)

\* A goroutine about to record a transaction works for the one it pays for, and
\* finds it as it was when it looked, provided that the lookup could find it at
\* all (wallet transactions are saved after TransactionExists).
Recording ==
    \A w \in Workers : At(w, "save") =>
        /\ job[w].tx \in Txs /\ User(w) = TxUser[job[w].tx]
        /\ job[w].tx \in Exact => saved[job[w].tx] = 0

\* A step that records nothing and prepares to record nothing.
LEMMA KeepsRecording ==
    ASSUME Recording, NEW w \in Workers, saved' = saved,
           \A v \in Workers \ {w} : job'[v] = job[v], job'[w].pc # "save"
    PROVE  Recording'
<1> SUFFICES ASSUME NEW v \in Workers, job'[v].pc = "save"
             PROVE  /\ job'[v].tx \in Txs /\ (job'[v].tx \in Exact => saved'[job'[v].tx] = 0)
                    /\ job'[v].user = TxUser[job'[v].tx]
  BY DEF Recording, At, User
<1>1. job'[v] = job[v]
  OBVIOUS
<1> QED  BY <1>1 DEF Recording, At, User

LEMMA StepNoSave ==
    ASSUME IInv, NEW w \in Workers, Step(w), ~Save(w)
    PROVE  /\ saved' = saved /\ job'[w].pc # "save"
           /\ \A v \in Workers \ {w} : job'[v] = job[v]
<1>1. job \in [Workers -> Job] /\ job[w] \in Job
  BY DEF IInv, JobsOK
<1> DEFINE j == job[w]
           Others == \A v \in Workers \ {w} : job'[v] = job[v]
<1>2. ASSUME NEW rec, Go(w, rec) PROVE job'[w] = rec /\ Others
  BY <1>1, <1>2 DEF Go
<1>3. CASE Total(w)
  <2> DEFINE u == User(w)
             sats == TxSats[j.tx]
             pc == Decision(sats + credit[u], credit[u])
             rec == [j EXCEPT !.pc = pc, !.seen = credit[u], !.rem = sats]
  <2>1. Go(w, rec) /\ saved' = saved
    BY <1>3 DEF Total, stores
  <2>2. rec.pc = pc /\ pc # "save"
    BY <1>1 DEF Decision, Job
  <2> HIDE DEF rec, pc
  <2> QED  BY <1>2, <2>1, <2>2
<1>4. CASE RejectAmount(w) \/ Notify(w)
  BY <1>2, <1>4, IdleIs DEF RejectAmount, Notify, stores
<1>5. CASE Bank(w) \/ Reset(w) \/ Leftover(w)
  BY <1>1, <1>2, <1>5 DEF Bank, Reset, Leftover, Job
<1>15. CASE Drop(w) \/ Delete(w)
  <2>1. PICK rec : Go(w, rec) /\ Clearing(j, rec)
    BY <1>15, ClearingSteps
  <2> QED  BY <1>2, <1>15, <2>1, ClearingSteps DEF Clearing
<1>6. CASE Refresh(w)
  <2> DEFINE end == [j EXCEPT !.pc = "notify"]
             write == [j EXCEPT !.pc = "drop", !.stage = "refresh", !.ev = Head(events[User(w)])]
  <2>1. (Go(w, end) \/ Go(w, write)) /\ saved' = saved
    BY <1>6 DEF Refresh, stores
  <2>2. end.pc = "notify" /\ write.pc = "drop"
    BY <1>1 DEF Job
  <2> HIDE DEF end, write
  <2> QED  BY <1>2, <2>1, <2>2
<1>7. CASE Read(w)
  <2> DEFINE e == Head(events[User(w)])
  <2>1. \/ Go(w, Idle) \/ Go(w, BuyHigh(j, e, Funds(w))) \/ Go(w, BuyOne(j, e, Funds(w)))
    BY <1>7 DEF Read, Purchase
  <2>2. BuyHigh(j, e, Funds(w)).pc = "drop" /\ BuyOne(j, e, Funds(w)).pc = "drop"
    BY <1>1 DEF BuyHigh, BuyOne, Job
  <2> QED  BY <1>2, <1>7, <2>1, <2>2, IdleIs DEF Read, stores
<1>8. CASE Sign(w)
  <2> DEFINE rec == [j EXCEPT !.pc = "store", !.ev.credit = credit[User(w)]]
  <2>1. Go(w, rec) /\ saved' = saved
    BY <1>8 DEF Sign, stores
  <2>2. rec.pc = "store"
    BY <1>1 DEF Job
  <2> HIDE DEF rec
  <2> QED  BY <1>2, <2>1, <2>2
<1>9. CASE Store(w)
  <2>1. Go(w, Continue(j, AfterStore(j.stage)))
    BY <1>9 DEF Store
  <2>2. Continue(j, AfterStore(j.stage)).pc # "save"
    BY <1>1, IdleIs DEF Continue, AfterStore, Job
  <2> QED  BY <1>2, <1>9, <2>1, <2>2 DEF Store
<1>10. CASE RecordPaid(w)
  <2>1. Go(w, [j EXCEPT !.pc = AfterPaid(j)])
    BY <1>10 DEF RecordPaid
  <2>2. AfterPaid(j) # "save"
    BY DEF AfterPaid, Settle
  <2> QED  BY <1>1, <1>2, <1>10, <2>1, <2>2 DEF RecordPaid, Job
<1>11. CASE Cascade(w)
  <2> DEFINE t == Best(InReach(j))
  <2> DEFINE extra == [j EXCEPT !.pc = "drop", !.stage = "extra"]
             settled == [j EXCEPT !.pc = Settle(j)]
  <2>1. (Go(w, Take(j, t)) \/ Go(w, extra) \/ Go(w, settled)) /\ saved' = saved
    BY <1>11 DEF Cascade, stores
  <2>2. Take(j, t).pc = "cascade" /\ extra.pc = "drop"
    BY <1>1, <1>11 DEF Take, Job, Cascade, At
  <2>3. settled.pc # "save"
    BY <1>1 DEF Job, Settle
  <2> HIDE DEF extra, settled
  <2> QED  BY <1>2, <2>1, <2>2, <2>3
<1>12. CASE Apply(w)
  <2> DEFINE c == credit[User(w)]
             buy == BuyOnCredit(j, Best(Affordable(c)), c)
  <2>1. Go(w, [j EXCEPT !.pc = "final"]) \/ Go(w, buy)
    BY <1>12 DEF Apply
  <2>2. buy.pc = "drop"
    BY <1>1 DEF BuyOnCredit, Job
  <2> HIDE DEF buy
  <2> QED  BY <1>1, <1>2, <1>12, <2>1, <2>2 DEF Apply, Job, stores
<1>13. CASE Charge(w)
  <2>1. Go(w, [j EXCEPT !.pc = AfterCharge(j)])
    BY <1>13 DEF Charge
  <2>2. AfterCharge(j) # "save"
    BY DEF AfterCharge
  <2> QED  BY <1>1, <1>2, <1>13, <2>1, <2>2 DEF Charge, Job
<1>14. CASE Final(w)
  <2> DEFINE write == [j EXCEPT !.pc = "drop", !.stage = "final", !.ev.tier = j.tier]
             end == [j EXCEPT !.pc = "notify"]
  <2>1. (Go(w, write) \/ Go(w, end)) /\ saved' = saved
    BY <1>14 DEF Final, stores
  <2>2. write.pc = "drop" /\ end.pc = "notify"
    BY <1>1 DEF Job
  <2> HIDE DEF write, end
  <2> QED  BY <1>2, <2>1, <2>2
<1> QED
  BY <1>3, <1>4, <1>5, <1>6, <1>7, <1>8, <1>9, <1>10, <1>11, <1>12, <1>13, <1>14, <1>15 DEF Step

LEMMA DeliverRecords ==
    ASSUME IInv, Recording, OnePerUser', NEW w \in Workers, NEW tx \in Txs, NEW exact \in BOOLEAN,
           Deliver(w, tx, exact)
    PROVE  Recording' /\ saved' = saved
<1> DEFINE rec == [Idle EXCEPT !.pc = "save", !.tx = tx, !.user = TxUser[tx]]
<1>1. saved' = saved /\ Go(w, IF Known(tx, exact) THEN Idle ELSE rec)
  BY DEF Deliver, stores
<1>2. rec.pc = "save" /\ rec.tx = tx /\ rec.user = TxUser[tx]
  BY DEF Idle
<1> HIDE DEF rec
<1>3. /\ job'[w] = IF Known(tx, exact) THEN Idle ELSE rec
      /\ \A v \in Workers \ {w} : job'[v] = job[v]
  BY <1>1 DEF Go, IInv, JobsOK
<1>4. CASE Known(tx, exact)
  BY <1>1, <1>3, <1>4, IdleIs, KeepsRecording
<1>5. CASE ~Known(tx, exact)
  <2>1. tx \in Exact => saved[tx] = 0
    BY <1>5 DEF Deliver, Known, IInv, StoreTypes
  <2>2. ASSUME NEW v \in Workers, job'[v].pc = "save"
        PROVE  /\ job'[v].tx \in Txs /\ (job'[v].tx \in Exact => saved'[job'[v].tx] = 0)
               /\ job'[v].user = TxUser[job'[v].tx]
    <3>1. CASE v = w
      BY <1>1, <1>2, <1>3, <1>5, <2>1, <3>1
    <3>2. CASE v # w
      BY <1>1, <1>3, <2>2, <3>2 DEF Recording, At, User
    <3> QED  BY <3>1, <3>2
  <2> QED  BY <1>1, <2>2 DEF Recording, At, User
<1> QED  BY <1>1, <1>4, <1>5

\* Two deliveries of a transaction are not handled at the same time.
LEMMA SaveRecords ==
    ASSUME IInv, Recording, OnePerUser, OncePerTx, NEW w \in Workers, Save(w)
    PROVE  Recording' /\ OncePerTx'
<1> DEFINE tx == job[w].tx
<1>1. /\ tx \in Txs /\ job[w].user = TxUser[tx] /\ job[w].pc = "save"
      /\ tx \in Exact => saved[tx] = 0
  BY DEF Save, Recording, At, User
<1>2. saved' = [saved EXCEPT ![tx] = saved[tx] + 1] /\ saved \in [Txs -> Nat]
  BY DEF Save, IInv, StoreTypes
<1>3. job'[w].pc = "total" /\ \A v \in Workers \ {w} : job'[v] = job[v]
  BY DEF Save, Go, IInv, JobsOK, Job
<1> HIDE DEF tx
<1>4. (tx \in Exact => saved'[tx] = 1) /\ \A t \in Txs \ {tx} : saved'[t] = saved[t]
  BY <1>1, <1>2
<1>5. OncePerTx'
  BY <1>4, TxAssumption DEF OncePerTx
<1>6. ASSUME NEW v \in Workers, job'[v].pc = "save"
      PROVE  /\ job'[v].tx \in Txs /\ (job'[v].tx \in Exact => saved'[job'[v].tx] = 0)
             /\ job'[v].user = TxUser[job'[v].tx]
  <2>1. v # w /\ job'[v] = job[v]
    BY <1>3, <1>6
  <2>2. /\ job[v].tx \in Txs /\ job[v].user = TxUser[job[v].tx]
        /\ job[v].tx \in Exact => saved[job[v].tx] = 0
    BY <1>6, <2>1 DEF Recording, At, User
  <2>3. job[v].tx # tx
    BY <1>1, <1>6, <2>1, <2>2 DEF OnePerUser, At, User
  <2> QED  BY <1>4, <2>1, <2>2, <2>3
<1>7. Recording'
  BY <1>6 DEF Recording, At, User
<1> QED  BY <1>5, <1>7

LEMMA NextRecords ==
    ASSUME IInv, Recording, OncePerTx, OnePerUser, OnePerUser', [Next]_vars
    PROVE  Recording' /\ OncePerTx'
<1>0. saved' = saved => OncePerTx'
  BY DEF OncePerTx
<1>1. ASSUME NEW w \in Workers, NEW tx \in Txs, NEW exact \in BOOLEAN,
             Deliver(w, tx, exact)
      PROVE  Recording' /\ OncePerTx'
  BY <1>0, <1>1, DeliverRecords
<1>2. ASSUME NEW w \in Workers, Step(w) PROVE Recording' /\ OncePerTx'
  <2>1. CASE Save(w)
    BY <2>1, SaveRecords
  <2>2. CASE ~Save(w)
    BY <1>0, <1>2, <2>2, StepNoSave, KeepsRecording
  <2> QED  BY <2>1, <2>2
<1>3. ASSUME NEW w \in Workers, NEW u \in Users, Upload(w, u) \/ Login(w, u) \/ ReadBack(w, u)
      PROVE  Recording' /\ OncePerTx'
  <2> DEFINE up == [Idle EXCEPT !.pc = "drop", !.stage = "usage", !.user = u,
                                !.ev = [Head(events[u]) EXCEPT !.used = @ + 1]]
             in == [Idle EXCEPT !.pc = "sign", !.stage = "usage", !.user = u, !.ev = FirstEvent]
             back == [Idle EXCEPT !.pc = "sign", !.stage = "usage", !.user = u,
                                  !.ev = Expected(Head(events[u]))]
  <2>1. PICK rec : Go(w, rec) /\ rec.pc # "save"
    <3>1. up.pc = "drop" /\ in.pc = "sign" /\ back.pc = "sign"
      BY DEF Idle
    <3>2. Go(w, up) \/ Go(w, in) \/ Go(w, back)
      BY <1>3 DEF Upload, Login, ReadBack
    <3> HIDE DEF up, in, back
    <3> QED  BY <3>1, <3>2
  <2>2. job'[w].pc # "save" /\ \A v \in Workers \ {w} : job'[v] = job[v]
    BY <2>1 DEF Go, IInv, JobsOK
  <2>3. saved' = saved
    BY <1>3 DEF Upload, Login, ReadBack, stores
  <2> QED  BY <1>0, <2>2, <2>3, KeepsRecording
<1>4. CASE Tick \/ UNCHANGED vars
  <2>1. saved' = saved /\ job' = job
    BY <1>4 DEF Tick, vars, stores
  <2> QED  BY <1>0, <2>1 DEF Recording, At, User
<1>5. CASE Restart
  <2>1. saved' = saved /\ \A v \in Workers : job'[v].pc = "idle"
    BY <1>5, IdleIs DEF Restart, stores
  <2> QED  BY <1>0, <2>1 DEF Recording, At, User
<1> QED
  BY <1>1, <1>2, <1>3, <1>4, <1>5 DEF Next

\* The wallet may send a transaction any number of times, and the process may
\* crash between two deliveries: as long as two deliveries for a user are not
\* handled at once, TransactionExists stops all but the first of those whose
\* amount the wallet spells as the relay saves it, with eight decimals.  Of the
\* others it stops none: they are outside Exact.
THEOREM RecordedOnce == Spec /\ []OnePerUser => []OncePerTx
<1>1. Init => IInv /\ Recording /\ OncePerTx
  <2>1. Init => Recording /\ OncePerTx
    BY IdleIs, TxAssumption DEF Init, Recording, OncePerTx, At, User
  <2> QED  BY <2>1, InitInv
<1>2. /\ IInv /\ Recording /\ OncePerTx /\ OnePerUser /\ OnePerUser' /\ [Next]_vars
      => (IInv /\ Recording /\ OncePerTx)'
  BY NextInv, NextRecords
<1> QED  BY <1>1, <1>2, PTL DEF Spec

=============================================================================
